---- MODULE Spec2Model ----
(***************************************************************************)
(* PlotGallery: eight flat example scripts, each driving an external      *)
(* numerical library.  A run executes one script from its first statement *)
(* to its last.  The position in the script is the source line of the     *)
(* next statement; external calls either return or raise.                 *)
(***************************************************************************)
EXTENDS Integers, Sequences, FiniteSets, TLC

VARIABLES
    script,         \* the script being run
    pc,             \* source line of the next statement of that script
    status,         \* "running", "waiting", "done", "exited", "raised"
    out,            \* what has been printed so far
    phase,          \* phase of the statement executed last, "start" at start
    defined,        \* the names bound / data produced so far
    misuse,         \* names that were read before they were produced
    nsolve,         \* number of solve/run/mesh calls made so far
    nplot,          \* number of plot calls made so far
    \* ---- Beys_Gallery/pyfin_alt_risk.py
    platform,       \* sys.platform, a sequence of characters
    FontPath,
    jpfont,
    Mu,             \* mean asset returns
    params,         \* cvx.Parameter objects: identity -> value
    Target_Return,  \* identity of the parameter bound to the name
    Alpha,          \* identity of the parameter bound to the name
    Opt_Portfolio,  \* the problem bound to the name
    V_Target,
    V_Risk,
    idx,            \* idx / idx_row of the running sweep
    idx_col,
    iterRow,        \* next index of the running enumerate(V_Target)
    iterCol,        \* next index of the running enumerate(V_Alpha)
    solution,       \* value of the objective after the last solve
    sweepSolves,    \* solver calls made by the running sweep
    sweepWrites,    \* assignments to V_Risk made by the running sweep
    \* ---- ccx_gallery/multihole.py
    argv,           \* sys.argv
    show_gui,
    eshape,
    pen,            \* where the part's drawing cursor is, in units of 0.5
    loops,          \* the loops drawn so far
    plots,          \* the plot calls made so far, with their display argument
    \* ---- meep_gallery/solve-cw.py
    cw_src,         \* src
    cw_sim,         \* sim: the settings of the Simulation bound to the name
    cw_field,       \* the field the simulation holds after its last solve
    tols,
    ez_dat,
    cw_i,           \* i of the tolerance loop
    err_dat,
    fd_sim,         \* the settings of the simulation solve_cw was called on
    td_sim,         \* the settings of the simulation run was called on
    \* ---- meep_gallery/polarization_grating.py
    pg_k,           \* k of the thickness loop
    pg_args,        \* the arguments d, ph of the running call of pol_grating
    pg_ret,         \* the line the running call returns to, 0 outside a call
    pg_sims,        \* the Simulation objects the running call has made
    pg_sim,         \* which of them the local name sim is bound to, 0 if none
    tran_flux,      \* the flux object bound to the local name
    input_flux,
    pg_res,         \* res1, res2
    pg_returned,    \* the tuple the last call returned
    m_uniaxial,     \* m0_uniaxial, m1_uniaxial, ang_uniaxial
    m_twisted,      \* m0_twisted, m1_twisted, ang_twisted
    \* ---- maya_gallery/compute_field.py
    maya_r0,        \* r0: the centers of the coils
    maya_n,         \* n: the normals of the coils
    maya_R,         \* R: the radii of the coils
    B,              \* the field: the terms added to the zero matrix so far
    coil,           \* next index of the running zip(n, r0, R)
    this_coil,      \* this_n, this_r0, this_R
    bv_n,           \* base_vectors: its argument n
    bv_out,         \* base_vectors: what it returned, None before it returns
    \* ---- sfepy_gallery/diffusion/poisson_periodic_boundary_condition.py
    ts_step,        \* ts.step of the time stepper
    nqp,            \* coors.shape[0]: quadrature points of the cylinder region
    calls,          \* calls of the material function in the running step
    mat,            \* what the last call of cylinder_material_func returned
    powerOn,        \* steps at which a returned power was on
    powerOff,       \* steps at which a returned power was off
    \* ---- qt_gallery/qt_3d_windows.py
    qt_events,      \* events the event loop has dispatched
    qt_code         \* what app.exec_() returned

common == <<script, pc, status, out>>
hist == <<phase, defined, misuse, nsolve, nplot>>
pyfinVars == <<platform, FontPath, jpfont, Mu, params, Target_Return, Alpha,
               Opt_Portfolio, V_Target, V_Risk, idx, idx_col, iterRow,
               iterCol, solution, sweepSolves, sweepWrites>>
ccxVars == <<argv, show_gui, eshape, pen, loops, plots>>
cwVars == <<cw_src, cw_sim, cw_field, tols, ez_dat, cw_i, err_dat, fd_sim, td_sim>>
pgVars == <<pg_k, pg_args, pg_ret, pg_sims, pg_sim, tran_flux, input_flux, pg_res,
            pg_returned, m_uniaxial, m_twisted>>
mayaVars == <<maya_r0, maya_n, maya_R, B, coil, this_coil, bv_n, bv_out>>
sfepyVars == <<ts_step, nqp, calls, mat, powerOn, powerOff>>
qtVars == <<qt_events, qt_code>>
data == <<pyfinVars, ccxVars, cwVars, pgVars, mayaVars, sfepyVars, qtVars>>
vars == <<common, hist, data>>

----------------------------------------------------------------------------
(* Bounds of the model *)

\* mean asset returns are drawn from -MuBound .. MuBound
MuBound == 1
\* at most MaxArgs arguments follow the script name on the command line
MaxArgs == 2
\* the field a solve leaves at the probe is drawn from 0 .. FieldBound
FieldBound == 3
\* the cylinder region has 1 .. MaxQP quadrature points
MaxQP == 3
\* the material function is called at most MaxCalls times in a time step
MaxCalls == 2
\* the event loop dispatches at most MaxEvents events before it is told to quit
MaxEvents == 3
\* base_vectors is given the non-zero vectors with integer components in -NBound .. NBound
NBound == 2

----------------------------------------------------------------------------
(* Common machinery *)

PYFIN == "Beys_Gallery/pyfin_alt_risk.py"
CCX == "ccx_gallery/multihole.py"
CW == "meep_gallery/solve-cw.py"
PG == "meep_gallery/polarization_grating.py"
CYL == "meep_gallery/cylinder_cross_section.py"
MAYA == "maya_gallery/compute_field.py"
SFEPY == "sfepy_gallery/diffusion/poisson_periodic_boundary_condition.py"
QT == "qt_gallery/qt_3d_windows.py"

Scripts == {PYFIN, CCX, CW, PG, CYL, MAYA, SFEPY, QT}

FirstLine(s) ==
    CASE s = PYFIN -> 7
      [] s = CCX -> 2
      [] s = CW -> 15
      [] s = PG -> 19
      [] s = CYL -> 19
      [] s = MAYA -> 9
      [] s = SFEPY -> 26
      [] s = QT -> 1

\* None of Python
None == <<>>


At(s, l) == script = s /\ status = "running" /\ pc = l

Goto(l) == pc' = l /\ UNCHANGED <<script, status>>

\* the statement just executed belongs to phase k, reads `uses`, binds `defs`
Mark(k, uses, defs) ==
    /\ phase' = k
    /\ misuse' = misuse \cup (uses \ defined)
    /\ defined' = defined \cup defs
    /\ nsolve' = IF k = "solve" THEN nsolve + 1 ELSE nsolve
    /\ nplot' = IF k = "plot" THEN nplot + 1 ELSE nplot


\* Raise with a finally clause around the solve of a frontier sweep: the
\* entry of the failed iteration is written before the script ends
RaiseAfterStore(s, l) ==
    /\ At(s, l)
    /\ status' = "raised"
    /\ IF s = PYFIN /\ l \in {68, 110}
         THEN V_Risk' = [V_Risk EXCEPT ![idx] = 1]
         ELSE UNCHANGED V_Risk
    /\ UNCHANGED <<script, pc, out, hist, platform, FontPath, jpfont, Mu, params,
                   Target_Return, Alpha, Opt_Portfolio, V_Target, idx, idx_col,
                   iterRow, iterCol, solution, sweepSolves, sweepWrites, ccxVars,
                   cwVars, pgVars, mayaVars, sfepyVars, qtVars>>

\* An external library call raises: nothing catches it, the script ends.
Raise(s, l) ==
    /\ At(s, l)
    /\ status' = "raised"
    /\ UNCHANGED <<script, pc, out, hist, data>>

----------------------------------------------------------------------------
(* Beys_Gallery/pyfin_alt_risk.py *)

AtPyfin(l) == At(PYFIN, l) /\ UNCHANGED <<ccxVars, cwVars, pgVars, mayaVars, sfepyVars, qtVars>>

\* the columns of asset_return_data.csv
Assets == {"asset 1", "asset 2"}

win == <<"w", "i", "n">>
darwin == <<"d", "a", "r", "w", "i", "n">>
linux == <<"l", "i", "n", "u", "x">>

\* values sys.platform may have
Platforms == { win \o <<"3", "2">>, darwin, linux,
               <<"c", "y", "g">> \o win, <<"a", "i", "x">> }

startswith(s, prefix) ==
    /\ Len(s) >= Len(prefix)
    /\ SubSeq(s, 1, Len(prefix)) = prefix

UnsupportedMsg == "OS not supported by this Python code"

\* number of points of the target grid: num=250
num == 250

SeqMin(s) == CHOOSE x \in {s[i] : i \in DOMAIN s} :
                \A y \in {s[i] : i \in DOMAIN s} : x <= y
SeqMax(s) == CHOOSE x \in {s[i] : i \in DOMAIN s} :
                \A y \in {s[i] : i \in DOMAIN s} : x >= y

\* np.linspace(lo, hi, num=n), in units of 1/(n-1)
linspace(lo, hi, n) == [i \in 0 .. n - 1 |-> lo * (n - 1) + i * (hi - lo)]

\* V_Alpha = np.array([0.05, 0.10, 0.25, 0.50]), in percent
V_Alpha == [c \in 0 .. 3 |-> <<5, 10, 25, 50>>[c + 1]]

\* np.zeros: the float 0.0
FloatZero == 0

\* What the external solver returns for the objective of problem p: an
\* uninterpreted value that depends on the problem and on the values its
\* parameters hold at the moment of the call.  The value is a number that
\* tells the problem, the target and the alpha apart, and is never 0.
ParamValue(ps, id) == IF id = 0 THEN 0 ELSE ps[id][1]
RiskCode(risk) ==
    CASE risk = "Risk_AD" -> 1
      [] risk = "Risk_Semivariance" -> 2
      [] risk = "Risk_ES" -> 3
SolverCode(risk, target, alpha) == RiskCode(risk) + 8 * (alpha + 64 * target)
SolverValue(p, ps) ==
    SolverCode(p.risk, ParamValue(ps, p.target), ParamValue(ps, p.alpha))

\* np.sqrt of a solver value: uninterpreted, and no solver value itself
sqrt(v) == v + 4

\* cvx.Parameter(nonneg=True): a new parameter object, without a value
NewParameter(ps) == Len(ps) + 1
\* a parameter whose value setter accepts everything
ValueAcceptedAlways(v) == TRUE

\* assignment to Parameter.value is accepted only for values of the declared
\* sign (the library's rounding tolerance is far below the unit of the model)
ValueAccepted(v) == v >= 0

\* the three frontier computations of the script, by source line
Frontier(k) ==
    CASE k = 1 -> [setup |-> 49, grid |-> 65, head |-> 67, solve |-> 68,
                   store |-> 69, plot |-> 76, after |-> 90,
                   risk |-> "Risk_AD", sqrt |-> FALSE]
      [] k = 2 -> [setup |-> 90, grid |-> 107, head |-> 109, solve |-> 110,
                   store |-> 111, plot |-> 118, after |-> 132,
                   risk |-> "Risk_Semivariance", sqrt |-> TRUE]

\* lines 7-22: get_ipython magic and the imports
PyfinImports ==
    /\ AtPyfin(7)
    /\ Goto(23)
    /\ Mark("input", {}, {"sys", "cvx", "pd", "plt", "FontProperties"})
    /\ UNCHANGED <<out, pyfinVars>>

\* lines 23-29: the if / elif chain on sys.platform
PyfinSelectFont ==
    /\ AtPyfin(23)
    /\ \E p \in Platforms :
        /\ platform' = p
        /\ IF startswith(p, win)
             THEN FontPath' = "C:\\Windows\\Fonts\\meiryo.ttc" /\ Goto(32)
                    /\ Mark("input", {"sys"}, {"FontPath"})
             ELSE IF startswith(p, darwin)
             THEN FontPath' = "/System/Library/Fonts/Hiragino Kaku Gothic W4.ttc"
                    /\ Goto(32) /\ Mark("input", {"sys"}, {"FontPath"})
             ELSE IF startswith(p, linux)
             THEN FontPath' = "/usr/share/fonts/truetype/takao-gothic/TakaoPGothic.ttf"
                    /\ Goto(32) /\ Mark("input", {"sys"}, {"FontPath"})
             ELSE FontPath' = FontPath /\ Goto(30) /\ Mark("input", {"sys"}, {})
    /\ UNCHANGED <<out, jpfont, Mu, params, Target_Return, Alpha, Opt_Portfolio,
                   V_Target, V_Risk, idx, idx_col, iterRow, iterCol, solution,
                   sweepSolves, sweepWrites>>

\* line 30: print(...)
PyfinUnsupportedMessage ==
    /\ AtPyfin(30)
    /\ out' = Append(out, UnsupportedMsg)
    /\ Goto(31)
    /\ UNCHANGED <<hist, pyfinVars>>


\* PyfinExit without the exit: the script goes on after the message
PyfinExitForgotten ==
    /\ AtPyfin(31)
    /\ Goto(32)
    /\ UNCHANGED <<out, hist, pyfinVars>>

\* line 31: sys.exit()
PyfinExit ==
    /\ AtPyfin(31)
    /\ status' = "exited"
    /\ UNCHANGED <<script, pc, out, hist, pyfinVars>>

\* line 32: jpfont = FontProperties(fname=FontPath)
PyfinFontProperties ==
    /\ AtPyfin(32)
    /\ jpfont' = [fname |-> FontPath]
    /\ Goto(39)
    /\ Mark("input", {"FontProperties", "FontPath"}, {"jpfont"})
    /\ UNCHANGED <<out, platform, FontPath, Mu, params, Target_Return, Alpha,
                   Opt_Portfolio, V_Target, V_Risk, idx, idx_col, iterRow, iterCol,
                   solution, sweepSolves, sweepWrites>>

\* lines 39-42: R = pd.read_csv(...); T, N; Mu = R.mean().values
PyfinLoadData ==
    /\ AtPyfin(39)
    /\ \E mu \in [Assets -> -MuBound .. MuBound] : Mu' = mu
    /\ Goto(49)
    /\ Mark("input", {"pd"}, {"R", "T", "N", "Mu"})
    /\ UNCHANGED <<out, platform, FontPath, jpfont, params, Target_Return, Alpha,
                   Opt_Portfolio, V_Target, V_Risk, idx, idx_col, iterRow, iterCol,
                   solution, sweepSolves, sweepWrites>>


\* PyfinSetupFrontier that rebinds Target_Return but, for the second
\* frontier, builds the problem on the parameter of the first
PyfinSetupFrontierStale(k) ==
    /\ AtPyfin(Frontier(k).setup)
    /\ params' = Append(params, None)
    /\ Target_Return' = NewParameter(params)
    /\ Opt_Portfolio' = [risk |-> Frontier(k).risk,
                         target |-> IF k = 1 THEN NewParameter(params) ELSE Target_Return,
                         alpha |-> 0]
    /\ Goto(Frontier(k).grid)
    /\ Mark("configure", {"cvx", "R", "Mu", "T", "N"},
            {"Return_Dev", "Weight", "Deviation", "Target_Return",
             Frontier(k).risk, "Opt_Portfolio"})
    /\ UNCHANGED <<out, platform, FontPath, jpfont, Mu, Alpha, V_Target, V_Risk,
                   idx, idx_col, iterRow, iterCol, solution, sweepSolves,
                   sweepWrites>>

\* lines 49-58 and 90-100: a new Target_Return parameter and a new problem
\* whose constraint refers to it
PyfinSetupFrontier(k) ==
    /\ AtPyfin(Frontier(k).setup)
    /\ params' = Append(params, None)
    /\ Target_Return' = NewParameter(params)
    /\ Opt_Portfolio' = [risk |-> Frontier(k).risk,
                         target |-> NewParameter(params), alpha |-> 0]
    /\ Goto(Frontier(k).grid)
    /\ Mark("configure", {"cvx", "R", "Mu", "T", "N"},
            {"Return_Dev", "Weight", "Deviation", "Target_Return",
             Frontier(k).risk, "Opt_Portfolio"})
    /\ UNCHANGED <<out, platform, FontPath, jpfont, Mu, Alpha, V_Target, V_Risk,
                   idx, idx_col, iterRow, iterCol, solution, sweepSolves,
                   sweepWrites>>

\* lines 65-66 and 107-108: the target grid and the zeroed result vector
PyfinGrid(k) ==
    /\ AtPyfin(Frontier(k).grid)
    /\ V_Target' = linspace(SeqMin(Mu), SeqMax(Mu), num)
    /\ V_Risk' = [i \in 0 .. num - 1 |-> FloatZero]
    /\ iterRow' = 0          \* the for statement that follows starts a new enumeration
    /\ sweepSolves' = 0
    /\ sweepWrites' = 0
    /\ Goto(Frontier(k).head)
    /\ Mark("configure", {"Mu"}, {"V_Target", "V_Risk"})
    /\ UNCHANGED <<out, platform, FontPath, jpfont, Mu, params, Target_Return,
                   Alpha, Opt_Portfolio, idx, idx_col, iterCol, solution>>

\* lines 67 and 109: for idx, Target_Return.value in enumerate(V_Target)
\* The next pair of the enumeration is assigned to idx and to the value of
\* the parameter the name Target_Return is bound to; the assignment to
\* .value raises when the parameter does not accept the value.
PyfinSweepHead(k) ==
    /\ AtPyfin(Frontier(k).head)
    /\ IF iterRow >= num
         THEN /\ Goto(Frontier(k).plot)
              /\ UNCHANGED <<idx, iterRow, params, hist>>
         ELSE /\ idx' = iterRow
              /\ iterRow' = iterRow + 1
              /\ IF ValueAccepted(V_Target[iterRow])
                   THEN /\ params' = [params EXCEPT ![Target_Return] = <<V_Target[iterRow]>>]
                        /\ Goto(Frontier(k).solve)
                        /\ Mark("configure", {"V_Target", "Target_Return"}, {"idx"})
                   ELSE /\ status' = "raised"
                        /\ UNCHANGED <<script, pc, params, hist>>
    /\ UNCHANGED <<out, platform, FontPath, jpfont, Mu, Target_Return, Alpha,
                   Opt_Portfolio, V_Target, V_Risk, idx_col, iterCol, solution,
                   sweepSolves, sweepWrites>>

\* lines 68 and 110: Opt_Portfolio.solve(solver=cvx.ECOS)
PyfinSolve(k) ==
    /\ AtPyfin(Frontier(k).solve)
    /\ solution' = SolverValue(Opt_Portfolio, params)
    /\ sweepSolves' = sweepSolves + 1
    /\ Goto(Frontier(k).store)
    /\ Mark("solve", {"Opt_Portfolio"}, {Frontier(k).risk \o ".value"})
    /\ UNCHANGED <<out, platform, FontPath, jpfont, Mu, params, Target_Return,
                   Alpha, Opt_Portfolio, V_Target, V_Risk, idx, idx_col, iterRow,
                   iterCol, sweepWrites>>

\* lines 69 and 111: V_Risk[idx] = Risk_AD.value / np.sqrt(Risk_Semivariance.value)
PyfinStore(k) ==
    /\ AtPyfin(Frontier(k).store)
    /\ V_Risk' = [V_Risk EXCEPT ![idx] =
                    IF Frontier(k).sqrt THEN sqrt(solution) ELSE solution]
    /\ sweepWrites' = sweepWrites + 1
    /\ Goto(Frontier(k).head)
    /\ Mark("extract", {"V_Risk", "idx", Frontier(k).risk \o ".value"}, {})
    /\ UNCHANGED <<out, platform, FontPath, jpfont, Mu, params, Target_Return,
                   Alpha, Opt_Portfolio, V_Target, idx, idx_col, iterRow, iterCol,
                   solution, sweepSolves>>

\* lines 76-83 and 118-125: the figure of the frontier
PyfinPlotFrontier(k) ==
    /\ AtPyfin(Frontier(k).plot)
    /\ Goto(Frontier(k).after)
    /\ Mark("plot", {"plt", "V_Risk", "V_Target", "R", "Mu", "T", "jpfont"}, {})
    /\ UNCHANGED <<out, pyfinVars>>

\* lines 132-144: new Alpha and Target_Return parameters and the
\* expected-shortfall problem, whose objective refers to Alpha and whose
\* constraint refers to Target_Return
PyfinSetupES ==
    /\ AtPyfin(132)
    /\ params' = params \o <<None, None>>
    /\ Alpha' = Len(params) + 1
    /\ Target_Return' = Len(params) + 2
    /\ Opt_Portfolio' = [risk |-> "Risk_ES", target |-> Len(params) + 2,
                         alpha |-> Len(params) + 1]
    /\ Goto(151)
    /\ Mark("configure", {"cvx", "R", "Mu", "T", "N"},
            {"Return", "Weight", "Deviation", "VaR", "Alpha", "Target_Return",
             "Risk_ES", "Opt_Portfolio"})
    /\ UNCHANGED <<out, platform, FontPath, jpfont, Mu, V_Target, V_Risk, idx,
                   idx_col, iterRow, iterCol, solution, sweepSolves, sweepWrites>>

\* lines 151-153: V_Alpha, the target grid and the zeroed result matrix
PyfinGridES ==
    /\ AtPyfin(151)
    /\ V_Target' = linspace(SeqMin(Mu), SeqMax(Mu), num)
    /\ V_Risk' = [r \in 0 .. num - 1 |-> [c \in DOMAIN V_Alpha |-> FloatZero]]
    /\ iterCol' = 0         \* the for statement that follows starts a new enumeration
    /\ sweepSolves' = 0
    /\ sweepWrites' = 0
    /\ Goto(154)
    /\ Mark("configure", {"Mu"}, {"V_Alpha", "V_Target", "V_Risk"})
    /\ UNCHANGED <<out, platform, FontPath, jpfont, Mu, params, Target_Return,
                   Alpha, Opt_Portfolio, idx, idx_col, iterRow, solution>>

\* line 154: for idx_col, Alpha.value in enumerate(V_Alpha)
PyfinAlphaHead ==
    /\ AtPyfin(154)
    /\ IF iterCol >= Cardinality(DOMAIN V_Alpha)
         THEN /\ Goto(165)
              /\ UNCHANGED <<idx_col, iterCol, params, hist>>
         ELSE /\ idx_col' = iterCol
              /\ iterCol' = iterCol + 1
              /\ IF ValueAccepted(V_Alpha[iterCol])
                   THEN /\ params' = [params EXCEPT ![Alpha] = <<V_Alpha[iterCol]>>]
                        /\ Goto(155)
                        /\ Mark("configure", {"V_Alpha", "Alpha"}, {"idx_col"})
                   ELSE /\ status' = "raised"
                        /\ UNCHANGED <<script, pc, params, hist>>
    /\ UNCHANGED <<out, platform, FontPath, jpfont, Mu, Target_Return, Alpha,
                   Opt_Portfolio, V_Target, V_Risk, idx, iterRow, solution,
                   sweepSolves, sweepWrites>>

\* PyfinAlphaAgain that assigns the entry after the one the loop head assigned
PyfinAlphaAgainShifted ==
    /\ AtPyfin(155)
    /\ params' = [params EXCEPT ![Alpha] = <<V_Alpha[(idx_col + 1) % 4]>>]
    /\ iterRow' = 0
    /\ Goto(156)
    /\ Mark("configure", {"V_Alpha", "Alpha", "idx_col"}, {})
    /\ UNCHANGED <<out, platform, FontPath, jpfont, Mu, Target_Return, Alpha,
                   Opt_Portfolio, V_Target, V_Risk, idx, idx_col, iterCol,
                   solution, sweepSolves, sweepWrites>>

\* line 155: Alpha.value = V_Alpha[idx_col]
PyfinAlphaAgain ==
    /\ AtPyfin(155)
    /\ params' = [params EXCEPT ![Alpha] = <<V_Alpha[idx_col]>>]
    /\ iterRow' = 0         \* the for statement that follows starts a new enumeration
    /\ Goto(156)
    /\ Mark("configure", {"V_Alpha", "Alpha", "idx_col"}, {})
    /\ UNCHANGED <<out, platform, FontPath, jpfont, Mu, Target_Return, Alpha,
                   Opt_Portfolio, V_Target, V_Risk, idx, idx_col, iterCol,
                   solution, sweepSolves, sweepWrites>>

\* line 156: for idx_row, Target_Return.value in enumerate(V_Target)
PyfinRowHead ==
    /\ AtPyfin(156)
    /\ IF iterRow >= num
         THEN /\ Goto(154)
              /\ UNCHANGED <<idx, iterRow, params, hist>>
         ELSE /\ idx' = iterRow
              /\ iterRow' = iterRow + 1
              /\ IF ValueAccepted(V_Target[iterRow])
                   THEN /\ params' = [params EXCEPT ![Target_Return] = <<V_Target[iterRow]>>]
                        /\ Goto(157)
                        /\ Mark("configure", {"V_Target", "Target_Return"}, {"idx_row"})
                   ELSE /\ status' = "raised"
                        /\ UNCHANGED <<script, pc, params, hist>>
    /\ UNCHANGED <<out, platform, FontPath, jpfont, Mu, Target_Return, Alpha,
                   Opt_Portfolio, V_Target, V_Risk, idx_col, iterCol, solution,
                   sweepSolves, sweepWrites>>

\* line 157: Opt_Portfolio.solve(solver=cvx.ECOS)
PyfinSolveES ==
    /\ AtPyfin(157)
    /\ solution' = SolverValue(Opt_Portfolio, params)
    /\ sweepSolves' = sweepSolves + 1
    /\ Goto(158)
    /\ Mark("solve", {"Opt_Portfolio"}, {"Risk_ES.value"})
    /\ UNCHANGED <<out, platform, FontPath, jpfont, Mu, params, Target_Return,
                   Alpha, Opt_Portfolio, V_Target, V_Risk, idx, idx_col, iterRow,
                   iterCol, sweepWrites>>

\* line 158: V_Risk[idx_row, idx_col] = Risk_ES.value
PyfinStoreES ==
    /\ AtPyfin(158)
    /\ V_Risk' = [V_Risk EXCEPT ![idx][idx_col] = solution]
    /\ sweepWrites' = sweepWrites + 1
    /\ Goto(156)
    /\ Mark("extract", {"V_Risk", "idx_row", "idx_col", "Risk_ES.value"}, {})
    /\ UNCHANGED <<out, platform, FontPath, jpfont, Mu, params, Target_Return,
                   Alpha, Opt_Portfolio, V_Target, idx, idx_col, iterRow, iterCol,
                   solution, sweepSolves>>

\* lines 165-180: figures 3 and 4; the loop of line 174,
\* for idx, Alpha.value in enumerate(V_Alpha), leaves idx and Alpha.value at
\* the last pair of the enumeration
PyfinPlotES ==
    /\ AtPyfin(165)
    /\ idx' = Cardinality(DOMAIN V_Alpha) - 1
    /\ params' = [params EXCEPT ![Alpha] = <<V_Alpha[Cardinality(DOMAIN V_Alpha) - 1]>>]
    /\ Goto(187)
    /\ Mark("plot", {"plt", "V_Risk", "V_Target", "V_Alpha", "R", "Mu", "jpfont", "Alpha"},
            {"LineTypes"})
    /\ UNCHANGED <<out, platform, FontPath, jpfont, Mu, Target_Return, Alpha,
                   Opt_Portfolio, V_Target, V_Risk, idx_col, iterRow, iterCol,
                   solution, sweepSolves, sweepWrites>>

\* lines 187-200: the data of the risk-parity example; Mu is rebound
\* (in units of 0.5)
PyfinRiskParitySetup ==
    /\ AtPyfin(187)
    /\ Mu' = <<2, 6, 3, 12, 9>>
    /\ Goto(201)
    /\ Mark("configure", {}, {"Mu", "Stdev", "CorrMatrix", "Sigma", "iota", "inv_Sigma",
                         "Weight_1N", "Weight_MV", "Weight_MD", "F"})
    /\ UNCHANGED <<out, platform, FontPath, jpfont, params, Target_Return, Alpha,
                   Opt_Portfolio, V_Target, V_Risk, idx, idx_col, iterRow, iterCol,
                   solution, sweepSolves, sweepWrites>>

\* line 201: Weight_RP = opt.root(F, ...).x[:-1]
PyfinRiskParityRoot ==
    /\ AtPyfin(201)
    /\ Goto(202)
    /\ Mark("solve", {"F", "Weight_1N", "Sigma"}, {"Weight_RP"})
    /\ UNCHANGED <<out, pyfinVars>>

\* lines 202-203: the four weight vectors are printed; the script ends
PyfinRiskParityShow ==
    /\ AtPyfin(202)
    /\ out' = Append(out, "weights")
    /\ status' = "done"
    /\ Mark("extract", {"Weight_1N", "Weight_MV", "Weight_RP", "Weight_MD"}, {})
    /\ UNCHANGED <<script, pc, pyfinVars>>


PyfinStep ==
    \/ PyfinImports
    \/ PyfinSelectFont
    \/ PyfinUnsupportedMessage
    \/ PyfinExit
    \/ PyfinFontProperties
    \/ PyfinLoadData
    \/ \E k \in 1 .. 2 : PyfinSetupFrontier(k)
    \/ \E k \in 1 .. 2 : PyfinGrid(k)
    \/ \E k \in 1 .. 2 : PyfinSweepHead(k)
    \/ \E k \in 1 .. 2 : PyfinSolve(k)
    \/ \E k \in 1 .. 2 : PyfinStore(k)
    \/ \E k \in 1 .. 2 : PyfinPlotFrontier(k)
    \/ PyfinSetupES
    \/ PyfinGridES
    \/ PyfinAlphaHead
    \/ PyfinAlphaAgain
    \/ PyfinRowHead
    \/ PyfinSolveES
    \/ PyfinStoreES
    \/ PyfinPlotES
    \/ PyfinRiskParitySetup
    \/ PyfinRiskParityRoot
    \/ PyfinRiskParityShow
    \/ \E l \in {7, 32, 39, 49, 68, 76, 90, 110, 118, 132, 157, 165, 201} : Raise(PYFIN, l)

----------------------------------------------------------------------------
(* ccx_gallery/multihole.py *)

AtCcx(l) == At(CCX, l) /\ UNCHANGED <<pyfinVars, cwVars, pgVars, mayaVars, sfepyVars, qtVars>>

\* words that may stand on the command line
ArgWords == {"-nogui", "-tri", "-NOGUI", "nogui"}

RECURSIVE SeqsUpTo(_, _)
SeqsUpTo(S, n) ==
    IF n = 0 THEN {<<>>}
    ELSE SeqsUpTo(S, n - 1) \cup
         {Append(q, x) : q \in {t \in SeqsUpTo(S, n - 1) : Len(t) = n - 1}, x \in S}

\* x in list
In(x, list) == \E i \in DOMAIN list : list[i] = x

\* Loop with the second hole started at (1.5, 2), against the side of the first
LoopTouching(j) ==
    CASE j = 1 -> [line |-> 24, next |-> 44, start |-> <<0, 0>>,
                   length |-> 16, width |-> 10, holemode |-> FALSE]
      [] j = 2 -> [line |-> 44, next |-> 52, start |-> <<2, 2>>,
                   length |-> 2, width |-> 2, holemode |-> TRUE]
      [] j = 3 -> [line |-> 52, next |-> 59, start |-> <<3, 4>>,
                   length |-> 2, width |-> 2, holemode |-> TRUE]

\* the three loops the script draws, in units of 0.5:
\* part.goto(x, y), then draw_line_rad(length), draw_line_ax(width),
\* draw_line_rad(-length), draw_line_ax(-width)
Loop(j) ==
    CASE j = 1 -> [line |-> 24, next |-> 44, start |-> <<0, 0>>,
                   length |-> 16, width |-> 10, holemode |-> FALSE]
      [] j = 2 -> [line |-> 44, next |-> 52, start |-> <<2, 2>>,
                   length |-> 2, width |-> 2, holemode |-> TRUE]
      [] j = 3 -> [line |-> 52, next |-> 59, start |-> <<3, 6>>,
                   length |-> 2, width |-> 2, holemode |-> TRUE]

draw_line_rad(p, d) == <<p[1] + d, p[2]>>
draw_line_ax(p, d) == <<p[1], p[2] + d>>

\* the points the pen visits while loop j is drawn
LoopPath(j) ==
    LET p0 == Loop(j).start
        p1 == draw_line_rad(p0, Loop(j).length)
        p2 == draw_line_ax(p1, Loop(j).width)
        p3 == draw_line_rad(p2, -Loop(j).length)
        p4 == draw_line_ax(p3, -Loop(j).width)
    IN  <<p0, p1, p2, p3, p4>>

\* the plot_geometry calls of the script: line, file name suffix, next line
GeometryPlot(j) ==
    CASE j = 1 -> [line |-> 59, name |-> "_prechunk_areas", next |-> 61]
      [] j = 2 -> [line |-> 61, name |-> "_prechunk_lines", next |-> 63]
      [] j = 3 -> [line |-> 63, name |-> "_prechunk_points", next |-> 66]
      [] j = 4 -> [line |-> 67, name |-> "_chunked_areas", next |-> 70]


\* PlotDisplay that ignores the flag
PlotDisplayAlways(gui) == TRUE

\* the display argument the plot calls are given
PlotDisplay(gui) == gui

\* lines 2-8: imports, model = pyc.FeaModel(model_name), model.set_units('m')
CcxModel ==
    /\ AtCcx(2)
    /\ Goto(11)
    /\ Mark("configure", {}, {"sys", "pyc", "model_name", "model"})
    /\ UNCHANGED <<out, ccxVars>>

\* lines 11-21: the flags of the command line and the dimensions
CcxFlags ==
    /\ AtCcx(11)
    /\ \E a \in SeqsUpTo(ArgWords, MaxArgs) :
        /\ argv' = <<"multihole.py">> \o a
        /\ show_gui' = IF In("-nogui", <<"multihole.py">> \o a) THEN FALSE ELSE TRUE
        /\ eshape' = IF In("-tri", <<"multihole.py">> \o a) THEN "tri" ELSE "quad"
    /\ Goto(24)
    /\ Mark("input", {"sys"}, {"show_gui", "eshape", "width", "length", "radius"})
    /\ UNCHANGED <<out, pen, loops, plots>>

\* lines 24-29, 44-50, 52-56: one closed loop of four lines
CcxDrawLoop(j) ==
    /\ AtCcx(Loop(j).line)
    /\ pen' = LoopPath(j)[5]
    /\ loops' = Append(loops, [path |-> LoopPath(j), holemode |-> Loop(j).holemode])
    /\ Goto(Loop(j).next)
    /\ Mark("configure", IF j = 1 THEN {"model", "width", "length"} ELSE {"part"},
            IF j = 1 THEN {"part"} ELSE {"hole_width", "hole_length"})
    /\ UNCHANGED <<out, argv, show_gui, eshape, plots>>

\* lines 59-64 and 67-68: model.plot_geometry(..., display=show_gui)
CcxPlotGeometry(j) ==
    /\ AtCcx(GeometryPlot(j).line)
    /\ plots' = Append(plots, [call |-> "plot_geometry",
                               name |-> "multihole" \o GeometryPlot(j).name,
                               display |-> PlotDisplay(show_gui)])
    /\ Goto(GeometryPlot(j).next)
    /\ Mark("plot", IF j = 4 THEN {"model", "part", "model_name", "show_gui", "chunks"}
                  ELSE {"model", "part", "model_name", "show_gui"}, {})
    /\ UNCHANGED <<out, argv, show_gui, eshape, pen, loops>>

\* line 66: part.chunk(debug=[0,0])
CcxChunk ==
    /\ AtCcx(66)
    /\ Goto(67)
    /\ Mark("configure", {"part"}, {"chunks"})
    /\ UNCHANGED <<out, ccxVars>>

\* lines 70-71: model.set_eshape(eshape, 2), model.set_etype('plstrain', part, 0.1)
CcxElementType ==
    /\ AtCcx(70)
    /\ Goto(72)
    /\ Mark("configure", {"model", "eshape", "part"}, {})
    /\ UNCHANGED <<out, ccxVars>>


\* CcxMesh that makes no mesh
CcxMeshForgotten ==
    /\ AtCcx(72)
    /\ Goto(73)
    /\ Mark("configure", {"model"}, {})
    /\ UNCHANGED <<out, ccxVars>>

\* line 72: model.mesh(0.7, 'gmsh')
CcxMesh ==
    /\ AtCcx(72)
    /\ Goto(73)
    /\ Mark("solve", {"model", "chunks"}, {"elements"})
    /\ UNCHANGED <<out, ccxVars>>

\* line 73: model.plot_elements(display=show_gui)
CcxPlotElements ==
    /\ AtCcx(73)
    /\ plots' = Append(plots, [call |-> "plot_elements", name |-> "multihole_elem",
                               display |-> PlotDisplay(show_gui)])
    /\ Goto(75)
    /\ Mark("plot", {"model", "elements", "show_gui"}, {})
    /\ UNCHANGED <<out, argv, show_gui, eshape, pen, loops>>

\* line 75: model.view.print_summary(); the script ends
CcxSummary ==
    /\ AtCcx(75)
    /\ out' = Append(out, "summary")
    /\ status' = "done"
    /\ Mark("extract", {"model"}, {})
    /\ UNCHANGED <<script, pc, ccxVars>>


CcxStep ==
    \/ CcxModel
    \/ CcxFlags
    \/ \E j \in 1 .. 3 : CcxDrawLoop(j)
    \/ \E j \in 1 .. 4 : CcxPlotGeometry(j)
    \/ CcxChunk
    \/ CcxElementType
    \/ CcxMesh
    \/ CcxPlotElements
    \/ CcxSummary
    \/ \E l \in {2, 24, 44, 52, 59, 61, 63, 66, 67, 70, 72, 73, 75} : Raise(CCX, l)

----------------------------------------------------------------------------
(* meep_gallery/solve-cw.py; lengths in units of 0.1, frequencies of 0.001 *)

AtCw(l) == At(CW, l) /\ UNCHANGED <<pyfinVars, ccxVars, pgVars, mayaVars, sfepyVars, qtVars>>

\* lines 24-28
cw_n == 34
cw_w == 10
cw_r == 10
cw_pad == 40
cw_dpml == 20
\* line 30
sxy == 2 * (cw_r + cw_w + cw_pad + cw_dpml)
\* line 40
cw_fcen == 118
\* line 127
cw_df == 80
\* line 74
num_tols == 5

\* mp.Vector3(x, y, z), absent components are 0
Vector3(x, y) == <<x, y, 0>>

\* line 31
cw_cell_size == Vector3(sxy, sxy)
\* line 33
cw_pml_layers == <<[kind |-> "PML", thickness |-> cw_dpml]>>
\* lines 37-38
cw_geometry == <<[shape |-> "Cylinder", radius |-> cw_r + cw_w, index |-> cw_n],
                 [shape |-> "Cylinder", radius |-> cw_r, index |-> 10]>>
\* lines 50-51
cw_symmetries == <<[kind |-> "Mirror", direction |-> "X", phase |-> -1],
                   [kind |-> "Mirror", direction |-> "Y", phase |-> 1]>>

\* mp.Source(src_time, component, center, amplitude=1)
Source(src_time, component, center) ==
    [src_time |-> src_time, component |-> component, center |-> center, amplitude |-> 1]
SourceAmp(src_time, component, center, amplitude) ==
    [src_time |-> src_time, component |-> component, center |-> center,
     amplitude |-> amplitude]

ContinuousSource(f) == [kind |-> "ContinuousSource", frequency |-> f, fwidth |-> 0]
GaussianSource(f, fw) == [kind |-> "GaussianSource", frequency |-> f, fwidth |-> fw]

\* lines 42-48
SrcContinuous ==
    <<Source(ContinuousSource(cw_fcen), "Ez", Vector3(cw_r + 1, 0)),
      SourceAmp(ContinuousSource(cw_fcen), "Ez", Vector3(-(cw_r + 1), 0), -1)>>
\* lines 128-134
SrcGaussian ==
    <<Source(GaussianSource(cw_fcen, cw_df), "Ez", Vector3(cw_r + 1, 0)),
      SourceAmp(GaussianSource(cw_fcen, cw_df), "Ez", Vector3(-(cw_r + 1), 0), -1)>>

\* mp.Simulation(...): the keyword arguments given, the others at their defaults
SimulationDefaults ==
    [cell_size |-> Vector3(0, 0), geometry |-> <<>>, sources |-> <<>>,
     resolution |-> 0, force_complex_fields |-> FALSE, symmetries |-> <<>>,
     boundary_layers |-> <<>>]
Simulation(kwargs) == kwargs @@ SimulationDefaults

\* lines 53-59
FrequencyDomainSim(src) ==
    Simulation([cell_size |-> cw_cell_size, geometry |-> cw_geometry, sources |-> src,
                resolution |-> 10, force_complex_fields |-> TRUE,
                symmetries |-> cw_symmetries, boundary_layers |-> cw_pml_layers])

\* TimeDomainSim at another resolution
TimeDomainSimFiner(src) ==
    Simulation([cell_size |-> Vector3(sxy, sxy), geometry |-> cw_geometry,
                sources |-> src, resolution |-> 20,
                symmetries |-> cw_symmetries, boundary_layers |-> cw_pml_layers])

\* lines 136-141
TimeDomainSim(src) ==
    Simulation([cell_size |-> Vector3(sxy, sxy), geometry |-> cw_geometry,
                sources |-> src, resolution |-> 10,
                symmetries |-> cw_symmetries, boundary_layers |-> cw_pml_layers])

RECURSIVE Pow10(_)
Pow10(e) == IF e = 0 THEN 1 ELSE 10 * Pow10(e - 1)

\* line 75: tols = np.power(10, np.arange(-8.0, -8.0-num_tols, -1.0)),
\* 10^(-8-i), in units of the smallest of them, 10^(-8-(num_tols-1))
Tolerances == [i \in 0 .. num_tols - 1 |-> Pow10((num_tols - 1) - i)]

\* LA.norm of a difference; the field array is one number here
Abs(x) == IF x < 0 THEN -x ELSE x
norm(x) == Abs(x)

\* line 95
ErrorOf(ez, i) == norm(ez[i] - ez[num_tols - 1])

\* np.diff(a) for a: 0 .. n-1 -> number
diff(a) == [j \in 0 .. Cardinality(DOMAIN a) - 2 |-> a[j + 1] - a[j]]


\* AllDecreasing with <= in place of <
AllNonIncreasing(err) == \A j \in DOMAIN diff(err) : diff(err)[j] <= 0

\* line 116: np.all(np.diff(err_dat) < 0)
AllDecreasing(err) == \A j \in DOMAIN diff(err) : diff(err)[j] < 0

PassedMsg == "PASSED solve_cw test"
FailedMsg == "FAILED solve_cw test"

\* lines 15-40: imports and the parameters of the ring resonator
CwParameters ==
    /\ AtCw(15)
    /\ Goto(42)
    /\ Mark("configure", {}, {"mp", "np", "LA", "plt", "n", "w", "r", "pad", "dpml", "sxy",
                         "cell_size", "pml_layers", "nonpml_vol", "geometry", "fcen"})
    /\ UNCHANGED <<out, cwVars>>

\* lines 42-51: the two continuous sources and the symmetries
CwSources ==
    /\ AtCw(42)
    /\ cw_src' = SrcContinuous
    /\ Goto(53)
    /\ Mark("configure", {"mp", "fcen", "r"}, {"src", "symmetries"})
    /\ UNCHANGED <<out, cw_sim, cw_field, tols, ez_dat, cw_i, err_dat, fd_sim, td_sim>>

\* lines 53-59: sim = mp.Simulation(...)
CwSimulation ==
    /\ AtCw(53)
    /\ cw_sim' = FrequencyDomainSim(cw_src)
    /\ Goto(60)
    /\ Mark("configure", {"mp", "cell_size", "geometry", "src", "symmetries", "pml_layers"},
            {"sim"})
    /\ UNCHANGED <<out, cw_src, cw_field, tols, ez_dat, cw_i, err_dat, fd_sim, td_sim>>

\* lines 60-62: sim.plot2D(ax=f.gca()); plt.show()
CwPlot2D ==
    /\ AtCw(60)
    /\ Goto(74)
    /\ Mark("plot", {"plt", "sim"}, {"f"})
    /\ UNCHANGED <<out, cwVars>>

\* lines 74-76: num_tols, tols, ez_dat
CwTolerances ==
    /\ AtCw(74)
    /\ tols' = Tolerances
    /\ ez_dat' = [i \in 0 .. num_tols - 1 |-> 0]
    /\ cw_i' = -1
    /\ Goto(78)
    /\ Mark("configure", {"np"}, {"num_tols", "tols", "ez_dat"})
    /\ UNCHANGED <<out, cw_src, cw_sim, cw_field, err_dat, fd_sim, td_sim>>


\* CwLoopHead that keeps counting round and never leaves the loop head
CwLoopHeadForever ==
    /\ AtCw(78)
    /\ cw_i' = (cw_i + 1) % num_tols
    /\ UNCHANGED <<script, pc, status, hist>>
    /\ UNCHANGED <<out, cw_src, cw_sim, cw_field, tols, ez_dat, err_dat, fd_sim, td_sim>>

\* line 78: for i in range(num_tols)
CwLoopHead ==
    /\ AtCw(78)
    /\ IF cw_i + 1 >= num_tols
         THEN Goto(93) /\ UNCHANGED <<cw_i, hist>>
         ELSE cw_i' = cw_i + 1 /\ Goto(79) /\ Mark("configure", {"num_tols"}, {"i"})
    /\ UNCHANGED <<out, cw_src, cw_sim, cw_field, tols, ez_dat, err_dat, fd_sim, td_sim>>

\* line 79: sim.init_sim()
CwInitSim ==
    /\ AtCw(79)
    /\ Goto(80)
    /\ Mark("configure", {"sim"}, {})
    /\ UNCHANGED <<out, cwVars>>

\* line 80: sim.solve_cw(tols[i], 10000, 10); the field it leaves is the solver's
CwSolve ==
    /\ AtCw(80)
    /\ \E f \in 0 .. FieldBound : cw_field' = [tol |-> tols[cw_i], value |-> f]
    /\ fd_sim' = cw_sim
    /\ Goto(81)
    /\ Mark("solve", {"sim", "tols", "i"}, {"fields"})
    /\ UNCHANGED <<out, cw_src, cw_sim, tols, ez_dat, cw_i, err_dat, td_sim>>

\* line 81: ez_dat[:,:,i] = sim.get_array(vol=nonpml_vol, component=mp.Ez)
CwGetArray ==
    /\ AtCw(81)
    /\ ez_dat' = [ez_dat EXCEPT ![cw_i] = cw_field.value]
    /\ Goto(78)
    /\ Mark("extract", {"sim", "fields", "ez_dat", "i", "nonpml_vol", "mp"}, {})
    /\ UNCHANGED <<out, cw_src, cw_sim, cw_field, tols, cw_i, err_dat, fd_sim, td_sim>>

\* lines 93-95: err_dat[i] = LA.norm(ez_dat[:,:,i]-ez_dat[:,:,num_tols-1])
CwErrors ==
    /\ AtCw(93)
    /\ err_dat' = [i \in 0 .. num_tols - 2 |-> ErrorOf(ez_dat, i)]
    /\ cw_i' = num_tols - 2
    /\ Goto(97)
    /\ Mark("extract", {"np", "LA", "ez_dat", "num_tols"}, {"err_dat"})
    /\ UNCHANGED <<out, cw_src, cw_sim, cw_field, tols, ez_dat, fd_sim, td_sim>>

\* lines 97-101: the error against the tolerance
CwPlotErrors ==
    /\ AtCw(97)
    /\ Goto(107)
    /\ Mark("plot", {"plt", "tols", "err_dat", "num_tols"}, {})
    /\ UNCHANGED <<out, cwVars>>

\* lines 107-114: eps_data, ez_data and the picture of the field
CwPlotField ==
    /\ AtCw(107)
    /\ Goto(116)
    /\ Mark("plot", {"plt", "sim", "fields", "ez_dat", "nonpml_vol"}, {"eps_data", "ez_data"})
    /\ UNCHANGED <<out, cwVars>>

\* lines 116-119: the verdict
CwVerdict ==
    /\ AtCw(116)
    /\ out' = Append(out, IF AllDecreasing(err_dat) THEN PassedMsg ELSE FailedMsg)
    /\ Goto(125)
    /\ Mark("extract", {"np", "err_dat"}, {})
    /\ UNCHANGED cwVars

\* line 125: sim.reset_meep()
CwReset ==
    /\ AtCw(125)
    /\ cw_field' = None
    /\ Goto(127)
    /\ Mark("configure", {"sim"}, {})
    /\ UNCHANGED <<out, cw_src, cw_sim, tols, ez_dat, cw_i, err_dat, fd_sim, td_sim>>

\* lines 127-134: df and the two Gaussian sources
CwPulseSources ==
    /\ AtCw(127)
    /\ cw_src' = SrcGaussian
    /\ Goto(136)
    /\ Mark("configure", {"mp", "fcen", "r"}, {"df", "src"})
    /\ UNCHANGED <<out, cw_sim, cw_field, tols, ez_dat, cw_i, err_dat, fd_sim, td_sim>>

\* lines 136-143: sim = mp.Simulation(...); dft_obj = sim.add_dft_fields(...)
CwTimeDomainSimulation ==
    /\ AtCw(136)
    /\ cw_sim' = TimeDomainSim(cw_src)
    /\ Goto(145)
    /\ Mark("configure", {"mp", "sxy", "geometry", "src", "symmetries", "pml_layers", "fcen",
                     "nonpml_vol"}, {"sim", "dft_obj"})
    /\ UNCHANGED <<out, cw_src, cw_field, tols, ez_dat, cw_i, err_dat, fd_sim, td_sim>>

\* line 145: sim.run(until_after_sources=100)
CwRun ==
    /\ AtCw(145)
    /\ \E f \in 0 .. FieldBound : cw_field' = [tol |-> 0, value |-> f]
    /\ td_sim' = cw_sim
    /\ Goto(151)
    /\ Mark("solve", {"sim"}, {"dft_fields"})
    /\ UNCHANGED <<out, cw_src, cw_sim, tols, ez_dat, cw_i, err_dat, fd_sim>>

\* lines 151-158: eps_data, ez_data and the picture of the field; the script ends
CwPlotDft ==
    /\ AtCw(151)
    /\ status' = "done"
    /\ Mark("plot", {"plt", "sim", "dft_fields", "dft_obj", "nonpml_vol"},
            {"eps_data", "ez_data"})
    /\ UNCHANGED <<script, pc, out, cwVars>>


CwStep ==
    \/ CwParameters
    \/ CwSources
    \/ CwSimulation
    \/ CwPlot2D
    \/ CwTolerances
    \/ CwLoopHead
    \/ CwInitSim
    \/ CwSolve
    \/ CwGetArray
    \/ CwErrors
    \/ CwPlotErrors
    \/ CwPlotField
    \/ CwVerdict
    \/ CwReset
    \/ CwPulseSources
    \/ CwTimeDomainSimulation
    \/ CwRun
    \/ CwPlotDft
    \/ \E l \in {15, 42, 53, 60, 79, 80, 81, 97, 107, 125, 127, 136, 145, 151} : Raise(CW, l)

----------------------------------------------------------------------------
(* meep_gallery/polarization_grating.py; lengths in units of 0.05 *)

AtPg(l) == At(PG, l) /\ UNCHANGED <<pyfinVars, ccxVars, cwVars, mayaVars, sfepyVars, qtVars>>

\* line 24
pg_resolution == 30
\* lines 26-28
pg_dpml == 20
pg_dsub == 20
pg_dpad == 20
\* lines 112-115
ph_uniaxial == 0
ph_twisted == 70
gp == 130
nmode == 5
\* line 116: dd = np.arange(0.2,3.5,0.2) has 17 entries, dd[k] = 0.2 (k + 1)
len_dd == 17
dd == [k \in 0 .. len_dd - 1 |-> 4 * (k + 1)]

\* the two calls of pol_grating in the loop body: line of the call, line the
\* script goes on at after the loop body's statements, arguments
GratingCall(c) ==
    CASE c = 1 -> [line |-> 127, next |-> 135, kind |-> "uniaxial", ph |-> ph_uniaxial]
      [] c = 2 -> [line |-> 135, next |-> 126, kind |-> "twisted", ph |-> ph_twisted]
\* the thickness argument: 0.5*dd[k] for the uniaxial, dd[k] for the twisted
\* grating, in units of 0.05
GratingThickness(c, k) == IF c = 1 THEN dd[k] ELSE 2 * dd[k]

\* line 42
pg_sx(d) == pg_dpml + pg_dsub + d + d + pg_dpad + pg_dpml


\* EmptySimulation that is given the grating geometry
EmptySimulationWithGrating(d) ==
    [resolution |-> pg_resolution, cell_size |-> <<pg_sx(d), gp, 0>>,
     geometry |-> TRUE, default_material |-> "air",
     runs |-> <<>>, reset |-> FALSE]

\* lines 72-77: the simulation without the grating
EmptySimulation(d) ==
    [resolution |-> pg_resolution, cell_size |-> <<pg_sx(d), gp, 0>>,
     geometry |-> FALSE, default_material |-> "n_0",
     runs |-> <<>>, reset |-> FALSE]
\* lines 89-94: the simulation with the grating geometry
GratingSimulation(d) ==
    [resolution |-> pg_resolution, cell_size |-> <<pg_sx(d), gp, 0>>,
     geometry |-> TRUE, default_material |-> "air",
     runs |-> <<>>, reset |-> FALSE]

\* what is read from flux object f: it belongs to one simulation, and the
\* reading depends on what that simulation has run so far
Reading(f, sims) == [sim |-> f.sim, runs |-> sims[f.sim].runs]

\* lines 19-39: imports and the global parameters; def pol_grating (41-104)
PgParameters ==
    /\ AtPg(19)
    /\ Goto(112)
    /\ Mark("configure", {}, {"mp", "math", "np", "plt", "resolution", "dpml", "dsub", "dpad",
                         "k_point", "pml_layers", "n_0", "delta_n", "epsilon_diag",
                         "wvl", "fcen", "pol_grating"})
    /\ UNCHANGED <<out, pgVars>>

\* lines 112-124: the sweep parameters and the zeroed result vectors
PgSweepSetup ==
    /\ AtPg(112)
    /\ m_uniaxial' = [k \in 0 .. len_dd - 1 |-> None]
    /\ m_twisted' = [k \in 0 .. len_dd - 1 |-> None]
    /\ pg_k' = -1
    /\ Goto(126)
    /\ Mark("configure", {"np"}, {"ph_uniaxial", "ph_twisted", "gp", "nmode", "dd",
                             "m_uniaxial", "m_twisted"})
    /\ UNCHANGED <<out, pg_args, pg_ret, pg_sims, pg_sim, tran_flux, input_flux,
                   pg_res, pg_returned>>

\* line 126: for k in range(len(dd))
PgLoopHead ==
    /\ AtPg(126)
    /\ IF pg_k + 1 >= len_dd
         THEN Goto(149) /\ UNCHANGED <<pg_k, hist>>
         ELSE pg_k' = pg_k + 1 /\ Goto(127) /\ Mark("configure", {"dd"}, {"k"})
    /\ UNCHANGED <<out, pg_args, pg_ret, pg_sims, pg_sim, tran_flux, input_flux,
                   pg_res, pg_returned, m_uniaxial, m_twisted>>

\* lines 127 and 135: pol_grating(...) is called; lines 42-70 of its body
\* (cell, phi, lc_mat, geometry, sources) are run with fresh locals
PgCall(c) ==
    /\ AtPg(GratingCall(c).line)
    /\ pg_args' = [d |-> GratingThickness(c, pg_k), ph |-> GratingCall(c).ph]
    /\ pg_ret' = GratingCall(c).line + 1
    /\ pg_sims' = <<>>
    /\ pg_sim' = 0
    /\ tran_flux' = None
    /\ input_flux' = None
    /\ pg_res' = None
    /\ Goto(72)
    /\ Mark("configure", {"pol_grating", "dd", "k", "gp", "nmode", "math",
                     IF c = 1 THEN "ph_uniaxial" ELSE "ph_twisted"},
            {"cell_size", "geometry", "sources"})
    /\ UNCHANGED <<out, pg_k, pg_returned, m_uniaxial, m_twisted>>

\* lines 72-77 and 89-94: sim = mp.Simulation(...), first without and then
\* with the geometry
PgSimulation(withGeometry) ==
    /\ AtPg(IF withGeometry THEN 89 ELSE 72)
    /\ pg_sims' = Append(pg_sims, IF withGeometry THEN GratingSimulation(pg_args.d)
                                  ELSE EmptySimulation(pg_args.d))
    /\ pg_sim' = Len(pg_sims) + 1
    /\ Goto(IF withGeometry THEN 96 ELSE 79)
    /\ Mark("configure", {"mp", "resolution", "cell_size", "pml_layers", "k_point", "sources"}
                    \cup (IF withGeometry THEN {"geometry"} ELSE {"n_0"}), {"sim"})
    /\ UNCHANGED <<out, pg_k, pg_args, pg_ret, tran_flux, input_flux, pg_res,
                   pg_returned, m_uniaxial, m_twisted>>

\* lines 79-80 and 96: tran_flux = sim.add_flux(...)
PgAddFlux(second) ==
    /\ AtPg(IF second THEN 96 ELSE 79)
    /\ tran_flux' = [sim |-> pg_sim]
    /\ Goto(IF second THEN 98 ELSE 82)
    /\ Mark("configure", {"sim", "fcen", "mp"}, {"tran_flux"})
    /\ UNCHANGED <<out, pg_k, pg_args, pg_ret, pg_sims, pg_sim, input_flux, pg_res,
                   pg_returned, m_uniaxial, m_twisted>>

\* lines 82 and 98: sim.run(until_after_sources=100 / 300)
PgRun(second) ==
    /\ AtPg(IF second THEN 98 ELSE 82)
    /\ pg_sims' = [pg_sims EXCEPT ![pg_sim].runs =
                      Append(@, IF second THEN 300 ELSE 100)]
    /\ Goto(IF second THEN 100 ELSE 84)
    /\ Mark("solve", {"sim"}, {"fields"})
    /\ UNCHANGED <<out, pg_k, pg_args, pg_ret, pg_sim, tran_flux, input_flux, pg_res,
                   pg_returned, m_uniaxial, m_twisted>>

\* lines 84-85: input_flux = mp.get_fluxes(tran_flux); input_flux_data
PgInputFlux ==
    /\ AtPg(84)
    /\ input_flux' = Reading(tran_flux, pg_sims)
    /\ Goto(87)
    /\ Mark("extract", {"mp", "sim", "tran_flux", "fields"}, {"input_flux"})
    /\ UNCHANGED <<out, pg_k, pg_args, pg_ret, pg_sims, pg_sim, tran_flux, pg_res,
                   pg_returned, m_uniaxial, m_twisted>>

\* line 87: sim.reset_meep()
PgReset ==
    /\ AtPg(87)
    /\ pg_sims' = [pg_sims EXCEPT ![pg_sim].reset = TRUE]
    /\ Goto(89)
    /\ Mark("configure", {"sim"}, {})
    /\ UNCHANGED <<out, pg_k, pg_args, pg_ret, pg_sim, tran_flux, input_flux, pg_res,
                   pg_returned, m_uniaxial, m_twisted>>

\* lines 100-102: res1, res2 = sim.get_eigenmode_coefficients(tran_flux, ...); angles
PgCoefficients ==
    /\ AtPg(100)
    /\ pg_res' = [res1 |-> [parity |-> "ODD_Z+EVEN_Y", from |-> Reading(tran_flux, pg_sims),
                            of |-> pg_sim],
                  res2 |-> [parity |-> "EVEN_Z+ODD_Y", from |-> Reading(tran_flux, pg_sims),
                            of |-> pg_sim]]
    /\ Goto(104)
    /\ Mark("extract", {"sim", "tran_flux", "fields", "nmode", "mp", "math", "fcen"},
            {"res1", "res2", "angles"})
    /\ UNCHANGED <<out, pg_k, pg_args, pg_ret, pg_sims, pg_sim, tran_flux, input_flux,
                   pg_returned, m_uniaxial, m_twisted>>

\* line 104: return input_flux[0], angles, res1.alpha[:,0,0], res2.alpha[:,0,0]
PgReturn ==
    /\ AtPg(104)
    /\ pg_returned' = [input_flux |-> input_flux, angles |-> pg_res.res1,
                       coeffs1 |-> pg_res.res1, coeffs2 |-> pg_res.res2,
                       sims |-> pg_sims]
    /\ pc' = pg_ret
    /\ pg_ret' = 0
    /\ UNCHANGED <<script, status>>
    /\ Mark("extract", {"input_flux", "angles", "res1", "res2"},
            {"input_flux", "angles", "coeffs1", "coeffs2"})
    /\ UNCHANGED <<out, pg_k, pg_args, pg_sims, pg_sim, tran_flux, input_flux, pg_res,
                   m_uniaxial, m_twisted>>

\* lines 128-133 and 136-141: tran, the nmode printed lines, and the entries
\* k of the result vectors
PgStore(c) ==
    /\ AtPg(GratingCall(c).line + 1)
    /\ out' = out \o [m \in 1 .. nmode |-> <<GratingCall(c).kind, m - 1>>]
    /\ IF c = 1
         THEN /\ m_uniaxial' = [m_uniaxial EXCEPT ![pg_k] =
                                  [coeffs |-> pg_returned.coeffs1, over |-> pg_returned.input_flux]]
              /\ UNCHANGED m_twisted
         ELSE /\ m_twisted' = [m_twisted EXCEPT ![pg_k] =
                                  [coeffs |-> pg_returned.coeffs1, over |-> pg_returned.input_flux]]
              /\ UNCHANGED m_uniaxial
    /\ Goto(GratingCall(c).next)
    /\ Mark("extract", {"coeffs1", "coeffs2", "input_flux", "angles", "nmode", "k",
                      IF c = 1 THEN "m_uniaxial" ELSE "m_twisted"}, {"tran"})
    /\ UNCHANGED <<pg_k, pg_args, pg_ret, pg_sims, pg_sim, tran_flux, input_flux, pg_res,
                   pg_returned>>

\* lines 149-156: the efficiencies and their analytic values
PgEfficiencies ==
    /\ AtPg(149)
    /\ Goto(162)
    /\ Mark("extract", {"math", "m_uniaxial", "delta_n", "dd", "wvl"},
            {"cos_angles", "tran", "eff_m0", "eff_m1", "phase", "eff_m0_analytic",
             "eff_m1_analytic"})
    /\ UNCHANGED <<out, pgVars>>

\* lines 162-191: the two panels of the figure; the script ends
PgPlot ==
    /\ AtPg(162)
    /\ status' = "done"
    /\ Mark("plot", {"plt", "np", "math", "phase", "eff_m0", "eff_m1", "eff_m0_analytic",
                   "eff_m1_analytic", "m_twisted"}, {})
    /\ UNCHANGED <<script, pc, out, pgVars>>


PgStep ==
    \/ PgParameters
    \/ PgSweepSetup
    \/ PgLoopHead
    \/ \E c \in 1 .. 2 : PgCall(c)
    \/ \E g \in BOOLEAN : PgSimulation(g)
    \/ \E g \in BOOLEAN : PgAddFlux(g)
    \/ \E g \in BOOLEAN : PgRun(g)
    \/ PgInputFlux
    \/ PgReset
    \/ PgCoefficients
    \/ PgReturn
    \/ \E c \in 1 .. 2 : PgStore(c)
    \/ PgEfficiencies
    \/ PgPlot
    \/ \E l \in {19, 72, 79, 82, 84, 87, 89, 96, 98, 100, 162} : Raise(PG, l)

----------------------------------------------------------------------------
(* meep_gallery/cylinder_cross_section.py *)

AtCyl(l) == At(CYL, l) /\ UNCHANGED data

\* the statements of the script, in order: first line, phase, names read,
\* names bound
CylStatements ==
    << [line |-> 19, phase |-> "configure", uses |-> {},
        defs |-> {"mp", "np", "plt", "r", "h", "frq_cen", "dfrq", "nfrq", "resolution",
                  "dpml", "dair", "pml_layers", "cell_size", "sources"}],
       \* lines 57-66: the empty simulation and its three flux objects
       [line |-> 57, phase |-> "configure",
        uses |-> {"mp", "cell_size", "pml_layers", "resolution", "sources", "frq_cen",
                  "dfrq", "nfrq", "r", "h"},
        defs |-> {"sim", "box_z1", "box_z2", "box_r"}],
       \* line 68: sim.run(until_after_sources=10)
       [line |-> 68, phase |-> "solve", uses |-> {"sim"}, defs |-> {"fields"}],
       \* lines 70-75: the flux data of the normalization run
       [line |-> 70, phase |-> "extract",
        uses |-> {"mp", "sim", "fields", "box_z1", "box_z2", "box_r"},
        defs |-> {"freqs", "box_z1_data", "box_z2_data", "box_r_data", "box_z1_flux0"}],
       \* lines 77-98: reset, the cylinder, the second simulation, its flux objects
       [line |-> 77, phase |-> "configure",
        uses |-> {"mp", "sim", "cell_size", "pml_layers", "resolution", "sources",
                  "box_z1_data", "box_z2_data", "box_r_data", "r", "h"},
        defs |-> {"n_cyl", "geometry", "sim", "box_z1", "box_z2", "box_r"}],
       \* line 100: sim.run(until_after_sources=100)
       [line |-> 100, phase |-> "solve", uses |-> {"sim"}, defs |-> {"scattered fields"}],
       \* lines 102-108: the fluxes and the scattering cross section
       [line |-> 102, phase |-> "extract",
        uses |-> {"mp", "np", "scattered fields", "box_z1", "box_z2", "box_r",
                  "box_z1_flux0", "r"},
        defs |-> {"box_z1_flux", "box_z2_flux", "box_r_flux", "scatt_flux", "intensity",
                  "scatt_cross_section"}],
       \* lines 110-117: the figure
       [line |-> 110, phase |-> "plot",
        uses |-> {"plt", "np", "r", "freqs", "scatt_cross_section"}, defs |-> {}] >>

\* statement j of the script is executed
CylStatement(j) ==
    /\ AtCyl(CylStatements[j].line)
    /\ IF j < Len(CylStatements)
         THEN Goto(CylStatements[j + 1].line)
         ELSE status' = "done" /\ UNCHANGED <<script, pc>>
    /\ Mark(CylStatements[j].phase, CylStatements[j].uses, CylStatements[j].defs)
    /\ UNCHANGED out


CylStep ==
    \/ \E j \in DOMAIN CylStatements : CylStatement(j)
    \/ \E l \in {CylStatements[j].line : j \in DOMAIN CylStatements} : Raise(CYL, l)

----------------------------------------------------------------------------
(* maya_gallery/compute_field.py; lengths in units of 0.1 *)

AtMaya(l) == At(MAYA, l) /\ UNCHANGED <<pyfinVars, ccxVars, cwVars, pgVars, sfepyVars, qtVars>>

\* negation of a vector
Neg(v) == [i \in DOMAIN v |-> -v[i]]

\* the field of one loop: an uninterpreted value of the loop's parameters
\* and of the grid it is evaluated on
B_field(r, n, r0, R) == [r |-> r, n |-> n, r0 |-> r0, R |-> R]

\* line 30, np.cross(a, b); index 1 is Python's index 0
cross(a, b) ==
    << a[2] * b[3] - a[3] * b[2],
       a[3] * b[1] - a[1] * b[3],
       a[1] * b[2] - a[2] * b[1] >>

\* base_vectors with the sign of the last component of l lost in its else branch
base_vectors_sign(n) ==
    LET l == IF n[1] * n[1] = n[1] * n[1] + n[2] * n[2] + n[3] * n[3]
               THEN << n[3], 0, -n[1] >>
               ELSE << 0, n[3], n[2] >>
    IN  [n |-> n, l |-> l, m |-> cross(n, l)]

\* lines 16-31, def base_vectors(n), for n # 0.  The divisions by the norms
\* of lines 20 and 29 scale by a positive number and are left out: each
\* vector returned here is a positive multiple of the one the code returns.
\* abs(n[0]) == 1 after line 20 says that n[0]^2 is the squared norm of n.
base_vectors(n) ==
    LET l == IF n[1] * n[1] = n[1] * n[1] + n[2] * n[2] + n[3] * n[3]
               THEN << n[3], 0, -n[1] >>
               ELSE << 0, n[3], -n[2] >>
    IN  [n |-> n, l |-> l, m |-> cross(n, l)]

\* base_vectors is called with bv_n and returns (line 31)
CallBaseVectors ==
    /\ AtMaya(16)
    /\ bv_out = None
    /\ bv_out' = base_vectors(bv_n)
    /\ Goto(31)
    /\ UNCHANGED <<out, hist, maya_r0, maya_n, maya_R, B, coil, this_coil, bv_n>>

\* lines 9-111: imports, def base_vectors, def B_field, the grid r
MayaGrid ==
    /\ AtMaya(9)
    /\ Goto(118)
    /\ Mark("input", {}, {"np", "special", "linalg", "base_vectors", "B_field", "X", "Y",
                        "Z", "f", "r"})
    /\ UNCHANGED <<out, mayaVars>>

\* MayaCoils that stacks the center of the first coil twice
MayaCoilsStacked ==
    /\ AtMaya(118)
    /\ maya_r0' = <<<<0, 0, 1>>, <<0, 0, 1>>>>
    /\ maya_R' = <<1, 1>>
    /\ maya_n' = <<<<0, 0, 1>>, <<0, 0, 1>>>>
    /\ Goto(132)
    /\ Mark("configure", {"np"}, {"r0", "n", "R"})
    /\ UNCHANGED <<out, B, coil, this_coil, bv_n, bv_out>>

\* lines 118-127: the first coil and its mirror image
MayaCoils ==
    /\ AtMaya(118)
    /\ maya_r0' = <<<<0, 0, 1>>, Neg(<<0, 0, 1>>)>>
    /\ maya_R' = <<1, 1>>
    /\ maya_n' = <<<<0, 0, 1>>, <<0, 0, 1>>>>
    /\ Goto(132)
    /\ Mark("configure", {"np"}, {"r0", "n", "R"})
    /\ UNCHANGED <<out, B, coil, this_coil, bv_n, bv_out>>

\* line 132: B = np.zeros_like(r)
MayaZero ==
    /\ AtMaya(132)
    /\ B' = <<>>
    /\ coil' = 1            \* the for statement that follows starts a new zip
    /\ Goto(134)
    /\ Mark("configure", {"np", "r"}, {"B"})
    /\ UNCHANGED <<out, maya_r0, maya_n, maya_R, this_coil, bv_n, bv_out>>

\* lines 134-137: for this_n, this_r0, this_R in zip(n, r0, R), and the
\* three np.array conversions; the script ends when zip is exhausted
MayaLoopHead ==
    /\ AtMaya(134)
    /\ IF coil > Len(maya_n) \/ coil > Len(maya_r0) \/ coil > Len(maya_R)
         THEN /\ status' = "done"
              /\ UNCHANGED <<script, pc, coil, this_coil, hist>>
         ELSE /\ this_coil' = [n |-> maya_n[coil], r0 |-> maya_r0[coil], R |-> maya_R[coil]]
              /\ coil' = coil + 1
              /\ Goto(138)
              /\ Mark("configure", {"np", "n", "r0", "R"}, {"this_n", "this_r0", "this_R"})
    /\ UNCHANGED <<out, maya_r0, maya_n, maya_R, B, bv_n, bv_out>>

\* line 138: B += B_field(r, this_n, this_r0, this_R)
MayaAddField ==
    /\ AtMaya(138)
    /\ B' = Append(B, B_field("r", this_coil.n, this_coil.r0, this_coil.R))
    /\ Goto(134)
    /\ Mark("solve", {"B_field", "base_vectors", "special", "linalg", "B", "r", "this_n",
                    "this_r0", "this_R"}, {})
    /\ UNCHANGED <<out, maya_r0, maya_n, maya_R, coil, this_coil, bv_n, bv_out>>


MayaStep ==
    \/ MayaGrid
    \/ MayaCoils
    \/ MayaZero
    \/ MayaLoopHead
    \/ MayaAddField
    \/ \E l \in {9, 138} : Raise(MAYA, l)

----------------------------------------------------------------------------
(* sfepy_gallery/diffusion/poisson_periodic_boundary_condition.py *)

AtSfepy(l) == At(SFEPY, l) /\ UNCHANGED <<pyfinVars, ccxVars, cwVars, pgVars, mayaVars, qtVars>>

\* line 35
n_step == 11
\* line 36
power_per_volume == 100
\* lines 37 and 39
capacity_cylinder == 1
conductivity_cylinder == 1
\* line 51: the power is on while ts.step is below this
PowerSteps == 5

\* the modes a material function is called with
Modes == {"qp", "special"}


\* cylinder_material_func with <= in place of <
cylinder_material_func_le(step, n, mode) ==
    IF mode = "qp"
      THEN [power |-> [q \in 1 .. n |-> IF step <= PowerSteps THEN power_per_volume ELSE 0],
            capacity |-> [q \in 1 .. n |-> 1 * capacity_cylinder],
            conductivity |-> [q \in 1 .. n |-> 1 * conductivity_cylinder]]
      ELSE None

\* lines 42-62
cylinder_material_func(step, n, mode) ==
    IF mode = "qp"
      THEN [power |-> [q \in 1 .. n |-> IF step < PowerSteps THEN power_per_volume ELSE 0],
            capacity |-> [q \in 1 .. n |-> 1 * capacity_cylinder],
            conductivity |-> [q \in 1 .. n |-> 1 * conductivity_cylinder]]
      ELSE None

\* lines 26-151: the problem description is loaded; the time stepper of
\* solvers['ts'] starts at step 0 on a mesh with some number of quadrature
\* points in the cylinder
SfepyLoad ==
    /\ AtSfepy(26)
    /\ \E n \in 1 .. MaxQP : nqp' = n
    /\ ts_step' = 0
    /\ calls' = 0
    /\ Goto(42)
    /\ Mark("configure", {}, {"cylinder_material_func", "materials", "equations", "solvers",
                         "options"})
    /\ UNCHANGED <<out, mat, powerOn, powerOff>>

\* lines 42-62: the solver evaluates the material of the cylinder
SfepyMaterial ==
    /\ AtSfepy(42)
    /\ calls < MaxCalls
    /\ \E mode \in Modes :
        /\ mat' = [step |-> ts_step, mode |-> mode,
                   value |-> cylinder_material_func(ts_step, nqp, mode)]
        /\ IF mode = "qp"
             THEN /\ calls' = calls + 1
                  /\ powerOn' = IF \E q \in 1 .. nqp :
                                      cylinder_material_func(ts_step, nqp, mode).power[q] # 0
                                  THEN powerOn \cup {ts_step} ELSE powerOn
                  /\ powerOff' = IF \E q \in 1 .. nqp :
                                      cylinder_material_func(ts_step, nqp, mode).power[q] = 0
                                  THEN powerOff \cup {ts_step} ELSE powerOff
             ELSE UNCHANGED <<calls, powerOn, powerOff>>
    /\ Goto(42)
    /\ Mark("configure", {"cylinder_material_func", "materials"}, {"cylinder.power"})
    /\ UNCHANGED <<out, ts_step, nqp>>

\* lines 134-141: the step is solved with the material values, and the
\* stepper of n_step steps goes to the next step or ends
SfepySolveStep ==
    /\ AtSfepy(42)
    /\ calls >= 1
    /\ IF ts_step + 1 < n_step
         THEN /\ ts_step' = ts_step + 1
              /\ calls' = 0
              /\ Goto(42)
         ELSE /\ status' = "done"
              /\ UNCHANGED <<script, pc, ts_step, calls>>
    /\ Mark("solve", {"equations", "solvers", "cylinder.power"}, {"T"})
    /\ UNCHANGED <<out, nqp, mat, powerOn, powerOff>>


SfepyStep ==
    \/ SfepyLoad
    \/ SfepyMaterial
    \/ SfepySolveStep
    \/ \E l \in {26, 42} : Raise(SFEPY, l)

----------------------------------------------------------------------------
(* qt_gallery/qt_3d_windows.py *)

AtQt(l) == At(QT, l) /\ UNCHANGED <<pyfinVars, ccxVars, cwVars, pgVars, mayaVars, sfepyVars>>

\* lines 1-67: imports and the two class definitions
QtImports ==
    /\ AtQt(1)
    /\ Goto(70)
    /\ Mark("configure", {}, {"QtCore", "QtGui", "QtWidgets", "QEntity", "Qt3DWindow",
                         "contained3dWindow", "Ui_MainWindow", "sys"})
    /\ UNCHANGED <<out, qtVars>>

\* lines 70-75: app, MainWindow, ui = Ui_MainWindow(); ui.setupUi(MainWindow)
QtSetupUi ==
    /\ AtQt(70)
    /\ Goto(77)
    /\ Mark("configure", {"QtWidgets", "sys", "Ui_MainWindow", "contained3dWindow"},
            {"app", "MainWindow", "ui"})
    /\ UNCHANGED <<out, qtVars>>

\* line 77: MainWindow.show()
QtShow ==
    /\ AtQt(77)
    /\ Goto(78)
    /\ Mark("configure", {"MainWindow"}, {})
    /\ UNCHANGED <<out, qtVars>>

\* line 78, app.exec_(): the event loop is entered, and the script waits in it
QtExec ==
    /\ AtQt(78)
    /\ qt_code = None
    /\ status' = "waiting"
    /\ Mark("configure", {"app"}, {})
    /\ UNCHANGED <<script, pc, out, qtVars>>

\* an event arrives and is dispatched; the loop goes on waiting
QtEvent ==
    /\ script = QT /\ status = "waiting" /\ pc = 78
    /\ qt_code = None
    /\ qt_events < MaxEvents
    /\ qt_events' = qt_events + 1
    /\ UNCHANGED <<common, hist, qt_code, pyfinVars, ccxVars, cwVars, pgVars, mayaVars, sfepyVars>>

\* the application is told to quit: app.exec_() returns its exit code
QtQuit ==
    /\ script = QT /\ status = "waiting" /\ pc = 78
    /\ qt_code = None
    /\ \E code \in 0 .. 1 : qt_code' = <<code>>
    /\ status' = "running"
    /\ UNCHANGED <<script, pc, out, hist, qt_events, pyfinVars, ccxVars, cwVars, pgVars, mayaVars, sfepyVars>>

\* line 78, sys.exit(...): the script ends with the code exec_ returned
QtSysExit ==
    /\ script = QT /\ status = "running" /\ pc = 78
    /\ qt_code # None
    /\ status' = "exited"
    /\ UNCHANGED <<script, pc, out, hist, qtVars, pyfinVars, ccxVars, cwVars, pgVars, mayaVars, sfepyVars>>


QtStep ==
    \/ QtImports
    \/ QtSetupUi
    \/ QtShow
    \/ QtExec
    \/ QtSysExit
    \/ \E l \in {1, 70, 77} : Raise(QT, l)

----------------------------------------------------------------------------

Init ==
    /\ script \in Scripts
    /\ pc = FirstLine(script)
    /\ status = "running"
    /\ out = <<>>
    /\ phase = "start"
    /\ defined = {}
    /\ misuse = {}
    /\ nsolve = 0
    /\ nplot = 0
    /\ platform = <<>>
    /\ FontPath = ""
    /\ jpfont = [fname |-> ""]
    /\ Mu = <<>>
    /\ params = <<>>
    /\ Target_Return = 0
    /\ Alpha = 0
    /\ Opt_Portfolio = [risk |-> "", target |-> 0, alpha |-> 0]
    /\ V_Target = <<>>
    /\ V_Risk = <<>>
    /\ idx = -1
    /\ idx_col = -1
    /\ iterRow = 0
    /\ iterCol = 0
    /\ solution = FloatZero
    /\ sweepSolves = 0
    /\ sweepWrites = 0
    /\ argv = <<>>
    /\ show_gui = TRUE
    /\ eshape = ""
    /\ pen = <<0, 0>>
    /\ loops = <<>>
    /\ plots = <<>>
    /\ cw_src = <<>>
    /\ cw_sim = None
    /\ cw_field = None
    /\ tols = <<>>
    /\ ez_dat = <<>>
    /\ cw_i = -1
    /\ err_dat = <<>>
    /\ fd_sim = None
    /\ td_sim = None
    /\ pg_k = -1
    /\ pg_args = None
    /\ pg_ret = 0
    /\ pg_sims = <<>>
    /\ pg_sim = 0
    /\ tran_flux = None
    /\ input_flux = None
    /\ pg_res = None
    /\ pg_returned = None
    /\ m_uniaxial = <<>>
    /\ m_twisted = <<>>
    /\ maya_r0 = <<>>
    /\ maya_n = <<>>
    /\ maya_R = <<>>
    /\ B = <<>>
    /\ coil = 1
    /\ this_coil = None
    /\ bv_n = <<>>
    /\ bv_out = None
    /\ ts_step = 0
    /\ nqp = 0
    /\ calls = 0
    /\ mat = None
    /\ powerOn = {}
    /\ powerOff = {}
    /\ qt_events = 0
    /\ qt_code = None

\* the steps of the scripts themselves
ScriptStep ==
    \/ PyfinStep
    \/ CcxStep
    \/ CwStep
    \/ PgStep
    \/ CylStep
    \/ MayaStep
    \/ SfepyStep
    \/ QtStep

\* what the window system does while a script waits in the event loop
Environment ==
    \/ QtEvent
    \/ QtQuit

Next ==
    \/ ScriptStep
    \/ Environment

Spec == Init /\ [][Next]_vars

\* The interpreter executes the next statement of a script whenever there
\* is one; nothing obliges the window system to send an event.
FairSpec == Spec /\ WF_vars(ScriptStep)


\* base_vectors on its own: the function is entered (line 16) with any
\* non-zero vector n of the range; nothing else of the script has run
BaseVectorsInit ==
    /\ script = MAYA
    /\ pc = 16
    /\ status = "running"
    /\ out = <<>>
    /\ phase = "start"
    /\ defined = {}
    /\ misuse = {}
    /\ nsolve = 0
    /\ nplot = 0
    /\ platform = <<>>
    /\ FontPath = ""
    /\ jpfont = [fname |-> ""]
    /\ Mu = <<>>
    /\ params = <<>>
    /\ Target_Return = 0
    /\ Alpha = 0
    /\ Opt_Portfolio = [risk |-> "", target |-> 0, alpha |-> 0]
    /\ V_Target = <<>>
    /\ V_Risk = <<>>
    /\ idx = -1
    /\ idx_col = -1
    /\ iterRow = 0
    /\ iterCol = 0
    /\ solution = FloatZero
    /\ sweepSolves = 0
    /\ sweepWrites = 0
    /\ argv = <<>>
    /\ show_gui = TRUE
    /\ eshape = ""
    /\ pen = <<0, 0>>
    /\ loops = <<>>
    /\ plots = <<>>
    /\ cw_src = <<>>
    /\ cw_sim = None
    /\ cw_field = None
    /\ tols = <<>>
    /\ ez_dat = <<>>
    /\ cw_i = -1
    /\ err_dat = <<>>
    /\ fd_sim = None
    /\ td_sim = None
    /\ pg_k = -1
    /\ pg_args = None
    /\ pg_ret = 0
    /\ pg_sims = <<>>
    /\ pg_sim = 0
    /\ tran_flux = None
    /\ input_flux = None
    /\ pg_res = None
    /\ pg_returned = None
    /\ m_uniaxial = <<>>
    /\ m_twisted = <<>>
    /\ maya_r0 = <<>>
    /\ maya_n = <<>>
    /\ maya_R = <<>>
    /\ B = <<>>
    /\ coil = 1
    /\ this_coil = None
    /\ bv_n \in {n \in [1 .. 3 -> -NBound .. NBound] : n # <<0, 0, 0>>}
    /\ bv_out = None
    /\ ts_step = 0
    /\ nqp = 0
    /\ calls = 0
    /\ mat = None
    /\ powerOn = {}
    /\ powerOff = {}
    /\ qt_events = 0
    /\ qt_code = None

BaseVectorsSpec == BaseVectorsInit /\ [][CallBaseVectors]_vars

----------------------------------------------------------------------------
(* Properties *)

\* s starts with the three characters a, b, c
Starts3(s, a, b, c) == Len(s) >= 3 /\ s[1] = a /\ s[2] = b /\ s[3] = c
StartsWin(s) == Starts3(s, "w", "i", "n")
StartsDarwin(s) == Starts3(s, "d", "a", "r") /\ Len(s) >= 6
                      /\ s[4] = "w" /\ s[5] = "i" /\ s[6] = "n"
StartsLinux(s) == Starts3(s, "l", "i", "n") /\ Len(s) >= 5 /\ s[4] = "u" /\ s[5] = "x"

\* C1: in pyfin_alt_risk.py, when sys.platform starts with none of 'win',
\* 'darwin', 'linux', the message is printed, then the process exits, and
\* nothing after the selection is executed (no FontProperties, no CSV load,
\* no solve, no plot); when it starts with one of them, exactly one
\* FontPath is chosen, nothing is printed for it and the script goes on.
C1_FontPathSelection ==
    (script = PYFIN /\ platform # <<>>) =>
        IF StartsWin(platform) \/ StartsDarwin(platform) \/ StartsLinux(platform)
          THEN /\ FontPath \in {"C:\\Windows\\Fonts\\meiryo.ttc",
                                "/System/Library/Fonts/Hiragino Kaku Gothic W4.ttc",
                                "/usr/share/fonts/truetype/takao-gothic/TakaoPGothic.ttf"}
               /\ StartsWin(platform) => FontPath = "C:\\Windows\\Fonts\\meiryo.ttc"
               /\ StartsDarwin(platform) =>
                     FontPath = "/System/Library/Fonts/Hiragino Kaku Gothic W4.ttc"
               /\ StartsLinux(platform) =>
                     FontPath = "/usr/share/fonts/truetype/takao-gothic/TakaoPGothic.ttf"
               /\ pc >= 32
               /\ status # "exited"
               /\ \A i \in DOMAIN out : out[i] # UnsupportedMsg
          ELSE /\ pc \in {30, 31}
               /\ status \in {"running", "exited"}
               /\ FontPath = ""
               /\ pc = 30 => (out = <<>> /\ status = "running")
               /\ pc = 31 => out = <<UnsupportedMsg>>
               /\ status = "exited" => (pc = 31 /\ out = <<UnsupportedMsg>>)
               /\ jpfont.fname = "" /\ Mu = <<>> /\ params = <<>>
               /\ nsolve = 0 /\ nplot = 0

\* the unsupported platform has printed its message and the process has exited
C1_Witness ==
    /\ script = PYFIN /\ status = "exited"
    /\ ~ (StartsWin(platform) \/ StartsDarwin(platform) \/ StartsLinux(platform))
    /\ out = <<UnsupportedMsg>>

\* what V_Risk[i] holds once the solve of sweep k for target t is collected
Collected(k, t) ==
    IF k = 1 THEN SolverCode("Risk_AD", t, 0)
    ELSE sqrt(SolverCode("Risk_Semivariance", t, 0))

\* C2: each of the two single-parameter frontier sweeps goes through the
\* 250 grid points in ascending index order with one solve per point; at
\* each solve the parameter the problem refers to is the one bound to
\* Target_Return and holds V_Target[idx]; after the loop every V_Risk[idx]
\* holds what was collected from the solve for V_Target[idx], each entry
\* written exactly once (a sweep in which a call raises ends there and
\* never reaches the statement after its loop).
C2_FrontierSweep ==
    \A k \in 1 .. 2 :
        (script = PYFIN /\ pc \in {Frontier(k).head, Frontier(k).solve,
                                   Frontier(k).store, Frontier(k).plot}) =>
            /\ Cardinality(DOMAIN V_Target) = 250
            /\ DOMAIN V_Risk = DOMAIN V_Target
            /\ pc = Frontier(k).solve =>
                  /\ idx = iterRow - 1 /\ idx \in 0 .. 249
                  /\ Opt_Portfolio.target = Target_Return
                  /\ params[Opt_Portfolio.target] = <<V_Target[idx]>>
                  /\ sweepSolves = idx /\ sweepWrites = idx
            /\ pc = Frontier(k).store =>
                  /\ idx = iterRow - 1
                  /\ sweepSolves = idx + 1 /\ sweepWrites = idx
                  /\ solution = SolverCode(Frontier(k).risk, V_Target[idx], 0)
            /\ (pc = Frontier(k).head /\ status = "running") =>
                  /\ sweepSolves = iterRow /\ sweepWrites = iterRow
                  /\ \A i \in DOMAIN V_Risk :
                        V_Risk[i] = IF i < iterRow THEN Collected(k, V_Target[i]) ELSE 0
            /\ pc = Frontier(k).plot =>
                  /\ iterRow = 250 /\ sweepSolves = 250 /\ sweepWrites = 250
                  /\ \A i \in DOMAIN V_Risk : V_Risk[i] = Collected(k, V_Target[i])

\* the second sweep has ended on a grid that is not a single point
C2_Witness ==
    /\ script = PYFIN /\ status = "running" /\ pc = Frontier(2).plot
    /\ sweepSolves = 250
    /\ V_Target[0] # V_Target[249]

\* C3 as stated: no plot call precedes the first solve/run/mesh call of
\* the script.
C3_NoPlotBeforeFirstSolve == nplot > 0 => nsolve > 0

\* C3 as amended: every statement reads only data that earlier statements
\* produced, so each solve follows the configuration of what it solves,
\* each extraction the solve it reads from and each plot the data it
\* shows; a plot precedes the first solve/run/mesh call only in
\* multihole.py and solve-cw.py, where the plots of the model geometry do,
\* and multihole.py plots the elements only after the mesh call.
C3_PhasesPerComputation ==
    /\ misuse = {}
    /\ (nplot > 0 /\ nsolve = 0) => script \in {CCX, CW}
    /\ (script = CCX /\ nsolve = 0) =>
          \A i \in DOMAIN plots : plots[i].call = "plot_geometry"
    /\ (script = CW /\ nsolve = 0) => nplot <= 1
    /\ (script = CCX /\ \E i \in DOMAIN plots : plots[i].call = "plot_elements") =>
          nsolve = 1

\* multihole.py has made its four geometry plots, the mesh and the element plot
C3_Witness == script = CCX /\ nplot = 5 /\ nsolve = 1 /\ status = "done"

\* C4 as stated: no script ever waits on an event.
C4_NeverWaits == status # "waiting"

\* C4 as amended: every script but qt_3d_windows.py ends after finitely
\* many steps without ever waiting on an event: it reaches its last
\* statement, unless an external call raises or pyfin_alt_risk.py exits on
\* an unsupported platform; qt_3d_windows.py waits in the event loop of
\* app.exec_() and reaches sys.exit only with the code the loop returned.
C4_OnePass ==
    /\ [](script # QT => status # "waiting")
    /\ <>(script # QT =>
             (status = "done" \/ status = "raised" \/ (script = PYFIN /\ status = "exited")))
    /\ []((script = QT /\ status = "exited") => qt_code # None)

\* the thickness sweep of polarization_grating.py has run to its last statement
C4_Witness == script = PG /\ status = "done" /\ pg_k = len_dd - 1

\* C5: when the solver call of a sweep raises at iteration k, the script
\* ends there: entries k and above of V_Risk are still 0, as many solves
\* were made as entries were written, and no script takes another step
\* after an error.
C5_ErrorsEndScript ==
    /\ [](\A k \in 1 .. 2 :
            (script = PYFIN /\ status = "raised" /\ pc = Frontier(k).solve) =>
                /\ sweepSolves = idx /\ sweepWrites = idx
                /\ \A i \in DOMAIN V_Risk : i >= idx => V_Risk[i] = 0
                /\ \A i \in DOMAIN V_Risk : i < idx => V_Risk[i] = Collected(k, V_Target[i]))
    /\ []((script = PYFIN /\ status = "raised" /\ pc = 157) =>
            \A r \in DOMAIN V_Risk : \A c \in DOMAIN V_Alpha :
                (c > idx_col \/ (c = idx_col /\ r >= idx)) => V_Risk[r][c] = 0)
    /\ [][status = "raised" => UNCHANGED vars]_vars

\* the solver has raised in the middle of the first sweep
C5_Witness ==
    /\ script = PYFIN /\ status = "raised" /\ pc = Frontier(1).solve
    /\ idx = 100

\* C6: in multihole.py show_gui is False exactly when '-nogui' is among
\* the command-line arguments, and every plot call is passed that value as
\* display; the five plot calls are the three pre-chunk geometry plots, the
\* chunked-areas plot and the element plot; no other script reads the
\* command line for it.
C6_NoGuiToggle ==
    /\ (script = CCX /\ argv # <<>>) =>
          /\ show_gui = ~ (\E i \in DOMAIN argv : argv[i] = "-nogui")
          /\ \A i \in DOMAIN plots : plots[i].display = show_gui
          /\ status = "done" =>
                [i \in DOMAIN plots |-> plots[i].call] =
                    <<"plot_geometry", "plot_geometry", "plot_geometry",
                      "plot_geometry", "plot_elements">>
    /\ (script = CCX /\ argv = <<>>) => plots = <<>>
    /\ script # CCX => (argv = <<>> /\ plots = <<>>)

\* the script has run with -nogui and made its five plots
C6_Witness ==
    /\ script = CCX /\ status = "done"
    /\ show_gui = FALSE /\ Len(plots) = 5

\* C7: every call of pol_grating runs the simulation without the grating
\* first, reads the input flux from it and resets it before the simulation
\* with the grating is built and run; the returned input flux is read from
\* the first simulation after its run, the returned mode coefficients from
\* the second after its run.
C7_NormalizationRunFirst ==
    /\ (script = PG /\ Len(pg_sims) >= 1) => ~ pg_sims[1].geometry
    /\ (script = PG /\ Len(pg_sims) = 2) =>
          /\ pg_sims[2].geometry
          /\ pg_sims[1].reset
          /\ pg_sims[1].runs = <<100>>
          /\ input_flux # None
    /\ (script = PG /\ input_flux # None) =>
          (input_flux.sim = 1 /\ input_flux.runs = <<100>>)
    /\ (script = PG /\ pg_res # None) =>
          \A c \in {pg_res.res1, pg_res.res2} :
              c.of = 2 /\ c.from.sim = 2 /\ c.from.runs = <<300>>
    /\ (script = PG /\ pg_returned # None) =>
          /\ Len(pg_returned.sims) = 2
          /\ ~ pg_returned.sims[1].geometry /\ pg_returned.sims[2].geometry
          /\ pg_returned.input_flux.sim = 1
          /\ pg_returned.input_flux.runs = <<100>>
          /\ pg_returned.coeffs1.from.sim = 2 /\ pg_returned.coeffs2.from.sim = 2
          /\ pg_returned.coeffs1.from.runs = <<300>>
          /\ pg_returned.coeffs2.from.runs = <<300>>

\* the last call of pol_grating of the sweep has returned
C7_Witness ==
    /\ script = PG /\ pg_k = len_dd - 1 /\ pc = 136
    /\ pg_returned # None

\* C8: the tolerances of the five solves are strictly decreasing, each
\* solve uses the tolerance of its iteration, and solve-cw.py prints exactly
\* one verdict: PASSED if and only if every value of err_dat is strictly
\* smaller than the one before it, FAILED otherwise.
C8_Verdict ==
    script = CW =>
        /\ tols # <<>> =>
              /\ Cardinality(DOMAIN tols) = 5
              /\ \A i \in DOMAIN tols : \A j \in DOMAIN tols : i < j => tols[j] < tols[i]
        /\ pc = 81 => cw_field.tol = tols[cw_i]
        /\ (pc <= 116 /\ status # "done") => out = <<>>
        /\ (pc > 116 \/ status = "done") =>
              /\ Cardinality(DOMAIN err_dat) = 4
              /\ out = <<IF \A j \in 1 .. 3 : err_dat[j] < err_dat[j - 1]
                           THEN PassedMsg ELSE FailedMsg>>

\* the script has printed PASSED
C8_Witness == script = CW /\ out = <<PassedMsg>> /\ status = "done"

\* the settings of a source other than its time profile
SourcePlacement(src) ==
    [i \in DOMAIN src |-> [component |-> src[i].component, center |-> src[i].center,
                           amplitude |-> src[i].amplitude]]

\* C9: the simulation solve_cw is called on and the simulation run is
\* called on differ in the source time profile (continuous against
\* Gaussian pulse) and in complex fields being forced on, and in nothing
\* else: cell size, geometry, resolution, symmetries, boundary layers and
\* each source's component, center and amplitude are the same.
C9_TwoChangesOnly ==
    (script = CW /\ td_sim # None) =>
        /\ fd_sim # None
        /\ DOMAIN fd_sim = DOMAIN td_sim
        /\ {f \in DOMAIN fd_sim : fd_sim[f] # td_sim[f]} = {"sources", "force_complex_fields"}
        /\ fd_sim.force_complex_fields /\ ~ td_sim.force_complex_fields
        /\ SourcePlacement(fd_sim.sources) = SourcePlacement(td_sim.sources)
        /\ \A i \in DOMAIN fd_sim.sources :
              /\ fd_sim.sources[i].src_time.kind = "ContinuousSource"
              /\ td_sim.sources[i].src_time.kind = "GaussianSource"
              /\ fd_sim.sources[i].src_time.frequency = td_sim.sources[i].src_time.frequency

\* both simulations have been run
C9_Witness == script = CW /\ td_sim # None /\ fd_sim # None /\ status = "done"

\* C10: in mode 'qp' the returned power is power_per_volume at every
\* quadrature point while ts.step < 5 and 0 at every point from step 5 on;
\* over the 11 steps the power is on in exactly the steps 0 to 4, never on
\* after it has been off, and capacity and conductivity are the same at
\* every step.
C10_PowerFirstFiveSteps ==
    script = SFEPY =>
        /\ (mat # None /\ mat.mode = "qp") =>
              /\ DOMAIN mat.value.power = 1 .. nqp
              /\ \A q \in 1 .. nqp :
                    /\ mat.step < 5 => mat.value.power[q] = 100
                    /\ mat.step >= 5 => mat.value.power[q] = 0
                    /\ mat.value.capacity[q] = 1
                    /\ mat.value.conductivity[q] = 1
        /\ \A a \in powerOn : \A b \in powerOff : a < b
        /\ powerOn \subseteq 0 .. 4
        /\ powerOff \subseteq 5 .. 10
        /\ ts_step \in 0 .. 10
        /\ status = "done" =>
              (ts_step = 10 /\ powerOn = 0 .. 4 /\ powerOff = 5 .. 10)

\* the eleven steps have been taken and the power has been off
C10_Witness ==
    /\ script = SFEPY /\ status = "done"
    /\ powerOn = 0 .. 4 /\ 10 \in powerOff

\* a . b
Dot(a, b) == a[1] * b[1] + a[2] * b[2] + a[3] * b[3]

\* C11: for every non-zero integer vector n of the range, base_vectors(n)
\* returns three non-zero, mutually orthogonal vectors, the first along n:
\* whichever branch is taken, l . n = 0 and l # 0, and m = n x l is
\* perpendicular to n and to l (directions before normalisation).
C11_BaseVectorsOrthogonal ==
    (script = MAYA /\ bv_out # None) =>
        /\ bv_n # <<0, 0, 0>>
        /\ bv_out.n = bv_n
        /\ bv_out.l # <<0, 0, 0>>
        /\ bv_out.m # <<0, 0, 0>>
        /\ Dot(bv_out.l, bv_n) = 0
        /\ Dot(bv_out.m, bv_n) = 0
        /\ Dot(bv_out.m, bv_out.l) = 0
        /\ (bv_n[2] = 0 /\ bv_n[3] = 0) => bv_out.l = << 0, 0, -bv_n[1] >>
        /\ (bv_n[2] # 0 \/ bv_n[3] # 0) => bv_out.l = << 0, bv_n[3], -bv_n[2] >>

\* base_vectors has returned for a vector off the x axis with all components non-zero
C11_Witness ==
    /\ script = MAYA /\ pc = 31 /\ bv_out # None
    /\ bv_n = << 1, -2, 2 >>

\* C12: the second coil is the mirror image of the first about the xy
\* plane (center negated, same radius, same normal); B starts as the zero
\* matrix; the loop visits the two coils once each, in order; after the
\* loop B is the sum of B_field of coil 1 and B_field of coil 2, both
\* evaluated on the grid r.
C12_HelmholtzSum ==
    script = MAYA =>
        /\ maya_r0 # <<>> =>
              /\ Len(maya_r0) = 2 /\ Len(maya_n) = 2 /\ Len(maya_R) = 2
              /\ maya_r0[1] = <<0, 0, 1>>
              /\ maya_r0[2] = <<maya_r0[1][1], maya_r0[1][2], 0 - maya_r0[1][3]>>
              /\ \A i \in 1 .. 3 : maya_r0[2][i] = 0 - maya_r0[1][i]
              /\ maya_R[2] = maya_R[1]
              /\ maya_n[2] = maya_n[1]
        /\ (pc = 134 /\ status # "raised") =>
              /\ coil \in 1 .. 3
              /\ Len(B) = coil - 1
        /\ pc = 138 =>
              /\ Len(B) = coil - 2
              /\ this_coil = [n |-> maya_n[coil - 1], r0 |-> maya_r0[coil - 1],
                              R |-> maya_R[coil - 1]]
        /\ \A i \in DOMAIN B :
              B[i] = [r |-> "r", n |-> maya_n[i], r0 |-> maya_r0[i], R |-> maya_R[i]]
        /\ status = "done" =>
              /\ coil = 3
              /\ B = << [r |-> "r", n |-> <<0, 0, 1>>, r0 |-> <<0, 0, 1>>, R |-> 1],
                        [r |-> "r", n |-> <<0, 0, 1>>, r0 |-> <<0, 0, -1>>, R |-> 1] >>

\* the loop over the coils has ended with both fields added
C12_Witness == script = MAYA /\ status = "done" /\ Len(B) = 2 /\ pc = 134

\* what V_Risk[r, c] holds once the expected-shortfall solve for target t
\* and level a is collected
CollectedES(t, a) == SolverCode("Risk_ES", t, a)

\* C13: the expected-shortfall sweep solves once for every pair of the
\* 4 x 250 grid, 1000 solves in all, the alpha loop outermost; at the solve
\* for column idx_col and row idx_row the Alpha parameter of the problem
\* holds V_Alpha[idx_col] and its Target_Return parameter holds
\* V_Target[idx_row]; afterwards V_Risk[idx_row, idx_col] holds the value
\* collected from that solve; the assignment of line 155 leaves Alpha.value
\* as the loop head set it.
C13_ExpectedShortfallSweep ==
    (script = PYFIN /\ pc \in {155, 156, 157, 158, 165}) =>
        /\ Cardinality(DOMAIN V_Target) = 250
        /\ DOMAIN V_Risk = DOMAIN V_Target
        /\ \A r \in DOMAIN V_Risk : DOMAIN V_Risk[r] = 0 .. 3
        /\ Opt_Portfolio = [risk |-> "Risk_ES", target |-> Target_Return, alpha |-> Alpha]
        /\ Alpha # Target_Return
        /\ pc \in {155, 156, 157, 158} =>
              /\ idx_col = iterCol - 1 /\ idx_col \in 0 .. 3
              /\ params[Alpha] = <<V_Alpha[idx_col]>>
        /\ pc \in {157, 158} =>
              /\ idx = iterRow - 1 /\ idx \in 0 .. 249
              /\ params[Target_Return] = <<V_Target[idx]>>
              /\ sweepWrites = 250 * idx_col + idx
        /\ pc = 157 => sweepSolves = sweepWrites
        /\ pc = 158 =>
              /\ sweepSolves = sweepWrites + 1
              /\ solution = CollectedES(V_Target[idx], V_Alpha[idx_col])
        /\ (pc = 156 /\ status = "running") =>
              /\ sweepSolves = 250 * idx_col + iterRow
              /\ sweepWrites = sweepSolves
              /\ \A r \in DOMAIN V_Risk : \A c \in 0 .. 3 :
                    V_Risk[r][c] =
                        IF c < idx_col \/ (c = idx_col /\ r < iterRow)
                          THEN CollectedES(V_Target[r], V_Alpha[c])
                          ELSE 0
        /\ pc = 165 =>
              /\ sweepSolves = 1000 /\ sweepWrites = 1000
              /\ \A r \in DOMAIN V_Risk : \A c \in 0 .. 3 :
                    V_Risk[r][c] = CollectedES(V_Target[r], V_Alpha[c])

\* the sweep has ended after its 1000 solves on a grid that is not a single point
C13_Witness ==
    /\ script = PYFIN /\ status = "running" /\ pc = 165
    /\ sweepSolves = 1000
    /\ V_Target[0] # V_Target[249]

\* smallest and largest coordinate k of the points of a path
Lowest(path, k) == CHOOSE v \in {path[i][k] : i \in DOMAIN path} :
                       \A i \in DOMAIN path : v <= path[i][k]
Highest(path, k) == CHOOSE v \in {path[i][k] : i \in DOMAIN path} :
                        \A i \in DOMAIN path : v >= path[i][k]

\* C14: every loop drawn in multihole.py is closed: after its four line
\* draws the pen is back at the loop's start point, (0, 0) for the outer
\* boundary and (1, 1) and (1.5, 3) for the two square holes; each hole
\* lies strictly inside the outer 8 by 5 rectangle; the two holes neither
\* overlap nor touch (coordinates in units of 0.5).
C14_LoopsClosedHolesValid ==
    script = CCX =>
        /\ Len(loops) <= 3
        /\ \A i \in DOMAIN loops :
              /\ Len(loops[i].path) = 5
              /\ loops[i].path[5] = loops[i].path[1]
              /\ loops[i].path[1] = << <<0, 0>>, <<2, 2>>, <<3, 6>> >>[i]
              /\ loops[i].holemode = (i > 1)
              /\ \A k \in 1 .. 4 : loops[i].path[k] # loops[i].path[k + 1]
        /\ loops # <<>> =>
              /\ pen = loops[Len(loops)].path[1]
              /\ Lowest(loops[1].path, 1) = 0 /\ Highest(loops[1].path, 1) = 16
              /\ Lowest(loops[1].path, 2) = 0 /\ Highest(loops[1].path, 2) = 10
        /\ \A i \in DOMAIN loops : i > 1 =>
              \A k \in 1 .. 2 :
                  /\ Lowest(loops[1].path, k) < Lowest(loops[i].path, k)
                  /\ Highest(loops[i].path, k) < Highest(loops[1].path, k)
                  /\ Highest(loops[i].path, k) - Lowest(loops[i].path, k) = 2
        /\ Len(loops) = 3 =>
              \E k \in 1 .. 2 :
                  \/ Highest(loops[2].path, k) < Lowest(loops[3].path, k)
                  \/ Highest(loops[3].path, k) < Lowest(loops[2].path, k)
        /\ pc >= 59 => Len(loops) = 3

\* the outer boundary and both holes have been drawn
C14_Witness == script = CCX /\ pc = 59 /\ Len(loops) = 3 /\ status = "running"

\* C15: Target_Return is a non-negative parameter and the target grid
\* starts at the smallest mean return.  If that is negative, the first
\* assignment of a target (iteration 0 of the first sweep) is rejected:
\* the script ends there, no solve has been made, V_Risk is all zeros and
\* the parameter has no value.  If it is non-negative, every target of the
\* grid is non-negative and no assignment of a sweep is ever rejected.
C15_NonNegativeTargets ==
    (script = PYFIN /\ Mu # <<>>) =>
        IF \E a \in DOMAIN Mu : Mu[a] < 0
          THEN /\ pc <= 67
               /\ nsolve = 0 /\ sweepSolves = 0 /\ sweepWrites = 0
               /\ pc = 67 =>
                     /\ V_Target[0] < 0
                     /\ \A a \in DOMAIN Mu : V_Target[0] <= 249 * Mu[a]
                     /\ \A i \in DOMAIN V_Risk : V_Risk[i] = 0
                     /\ params[Target_Return] = None
               /\ (pc = 67 /\ status = "running") => iterRow = 0
               /\ (pc = 67 /\ status = "raised") => (idx = 0 /\ iterRow = 1)
               /\ status # "done"
          ELSE /\ pc \in {67, 109, 156} => status # "raised"
               /\ (pc \in {67, 68, 69, 109, 110, 111, 156, 157, 158}) =>
                     \A i \in DOMAIN V_Target : V_Target[i] >= 0
               /\ (pc \in {68, 69, 110, 111, 157, 158}) =>
                     params[Target_Return] = <<V_Target[idx]>>

\* the smallest mean return is negative and the first target has been rejected
C15_Witness ==
    /\ script = PYFIN /\ status = "raised" /\ pc = 67
    /\ \E a \in DOMAIN Mu : Mu[a] < 0
    /\ \E a \in DOMAIN Mu : Mu[a] > 0
    /\ sweepSolves = 0

====
